---------------------------- MODULE Spec2Model ----------------------------
(***************************************************************************)
(* BusTrack India: geocoding with anchor heuristic and session cache       *)
(* (geoValidator.ts), two-tier route cache (routeCache.ts), edge route     *)
(* resolver (routeResolver.ts), route worker (routeWorker.ts) and marker   *)
(* interpolation (animationWorker.ts).                                     *)
(*                                                                         *)
(* Each component has its own next-state relation and specification; the   *)
(* variables of the other components keep their initial values.            *)
(*                                                                         *)
(* Optional values (T | null, T | undefined) are sequences of length <= 1: *)
(* <<>> is null / undefined, <<x>> is the value x.                         *)
(***************************************************************************)
EXTENDS Integers, Sequences, FiniteSets, Bags, TLC

VARIABLES
    _cache,      \* geoValidator.ts: Map normalized name -> result | null
    calls,       \* bag of the geocodeStop invocations in flight
    geoLast,     \* the geocodeStop invocation that settled last
    seq,         \* the geocodeStopSequence invocation
    geoFirst,    \* history: per key, the value the first completed call returned
    selIn,       \* anchor selection, inputs: [anchor, results]
    selOut,      \* anchor selection, output: <<>> before it ran, <<best>> after
    gpsIn,       \* routeWorker.ts filterNoisyGps request: [rawPoints, minDistMeters]
    gpsOut,      \* its response: <<>> before it ran, <<points>> after
    _animations, \* animationWorker.ts: Map track id -> requestAnimationFrame handle
    raf,         \* the browser's pending frame callbacks: handle -> step closure
    rafNext,     \* the handle the next requestAnimationFrame call returns
    marker,      \* the marker's position (marker.getLatLng())
    now,         \* performance.now(), in time units
    animHist,    \* history of the animateMarkerTo calls
    _mem,        \* routeCache.ts tier 1: Map key -> CachedRoute
    sessionStorage, \* tier 2: key -> stored string
    prewarms,    \* RouteCache.prewarm calls: args, state, whether they fetched
    rcSet,       \* the RouteCache.set call, if it was the last operation
    rcGot,       \* the RouteCache.get call, if it was the last operation
    rcEver,      \* history: the keys ever written to a tier
    edgeReqs,    \* routeResolver.ts: the bag of requests being handled,
                 \* each with the position of its handler
    edgeCount,   \* requests received so far
    edgeLast,    \* the request answered last, with its response
    edgeStored,  \* history: the 200 answers with fromCache = false
    kvStore,     \* the Deno KV store: key -> [value, expireAt]
    edgeNow,     \* the clock of the edge function and of the KV store
    keyIn,       \* makeKey, inputs: [stops, jittered, profile]
    keyOut,      \* makeKey, outputs: the two keys and the cache's answer
    wkPosted,    \* routeWorker.ts: the messages posted to the worker, in order
    wkDone,      \* how many of them self.onmessage has handled
    wkOut,       \* the messages the worker posted, each with the index of
                 \* the request whose handler posted it
    loop,        \* routeResolver.ts: one handler in its geocoding loop
    loopNow,     \* the clock of that handler, in milliseconds
    ekIn,        \* routeResolver.ts cacheKey, inputs: two stop lists
    ekOut        \* their keys and what the second finds stored by the first

geoVars == <<_cache, calls, geoLast, seq, geoFirst>>
selVars == <<selIn, selOut>>
gpsVars == <<gpsIn, gpsOut>>
animVars == <<_animations, raf, rafNext, marker, now, animHist>>
rcVars == <<_mem, sessionStorage, prewarms, rcSet, rcGot, rcEver>>
edgeVars == <<edgeReqs, edgeCount, edgeLast, edgeStored, kvStore, edgeNow>>
keyVars == <<keyIn, keyOut>>
wkVars == <<wkPosted, wkDone, wkOut>>
loopVars == <<loop, loopNow>>
ekVars == <<ekIn, ekOut>>
vars == <<geoVars, selVars, gpsVars, animVars, rcVars, edgeVars, keyVars, wkVars, loopVars, ekVars>>

\* what the steps of one component leave alone
nonGeoVars == <<selVars, gpsVars, animVars, rcVars, edgeVars, keyVars, wkVars, loopVars, ekVars>>
nonSelVars == <<geoVars, gpsVars, animVars, rcVars, edgeVars, keyVars, wkVars, loopVars, ekVars>>
nonGpsVars == <<geoVars, selVars, animVars, rcVars, edgeVars, keyVars, wkVars, loopVars, ekVars>>
nonAnimVars == <<geoVars, selVars, gpsVars, rcVars, edgeVars, keyVars, wkVars, loopVars, ekVars>>
nonRcVars == <<geoVars, selVars, gpsVars, animVars, edgeVars, keyVars, wkVars, loopVars, ekVars>>
nonEdgeVars == <<geoVars, selVars, gpsVars, animVars, rcVars, keyVars, wkVars, loopVars, ekVars>>
nonKeyVars == <<geoVars, selVars, gpsVars, animVars, rcVars, edgeVars, wkVars, loopVars, ekVars>>
nonWkVars == <<geoVars, selVars, gpsVars, animVars, rcVars, edgeVars, keyVars, loopVars, ekVars>>
nonLoopVars == <<geoVars, selVars, gpsVars, animVars, rcVars, edgeVars, keyVars, wkVars, ekVars>>
nonEkVars == <<geoVars, selVars, gpsVars, animVars, rcVars, edgeVars, keyVars, wkVars, loopVars>>

Null == <<>>
Some(x) == <<x>>

(***************************************************************************)
(* Bounds of the model.                                                    *)
(***************************************************************************)
MaxCalls == 2      \* geocodeStop invocations in flight at once
MaxSeqLen == 3     \* names in one geocodeStopSequence invocation
MaxCands == 2      \* candidates in one provider answer of the geocoder model
MaxSelCands == 3   \* candidates in one provider answer of the selection model
MaxFixes == 3      \* fixes in one filterNoisyGps request
MaxTime == 5       \* the animation clock stops here
MaxAnims == 2      \* animateMarkerTo calls
MaxPrewarms == 2   \* RouteCache.prewarm calls per page load
MaxReqs == 2       \* requests the edge function receives
MaxEdgeTime == 2   \* the edge clock stops here
MaxKeyStops == 1   \* stops of a sequence given to makeKey

(***************************************************************************)
(* Generic helpers.                                                        *)
(***************************************************************************)
SeqsUpTo(S, n) == UNION {[1..k -> S] : k \in 0..n}

MapSet(m, k, v) == [x \in (DOMAIN m) \cup {k} |-> IF x = k THEN v ELSE m[x]]

(***************************************************************************)
(* Names are sequences of characters, so that trim() and toLowerCase()     *)
(* are computed.                                                           *)
(***************************************************************************)
IsSpace(ch) == ch = " "

RECURSIVE TrimLeft(_)
TrimLeft(s) ==
    IF s = <<>> THEN s
    ELSE IF IsSpace(Head(s)) THEN TrimLeft(Tail(s)) ELSE s

RECURSIVE TrimRight(_)
TrimRight(s) ==
    IF s = <<>> THEN s
    ELSE IF IsSpace(s[Len(s)]) THEN TrimRight(SubSeq(s, 1, Len(s) - 1)) ELSE s

Trim(s) == TrimRight(TrimLeft(s))

LowerChar(ch) ==
    CASE ch = "A" -> "a"
      [] ch = "B" -> "b"
      [] OTHER -> ch

ToLowerCase(s) == [i \in 1..Len(s) |-> LowerChar(s[i])]

CacheKeyDropsTrim(name) == ToLowerCase(name)

\* geoValidator.ts:25  name.trim().toLowerCase()
CacheKey(name) == ToLowerCase(Trim(name))

RawNames == { <<"a">>, <<"A", " ">>, <<"b">> }

(***************************************************************************)
(* Coordinates are in 1/100 degree.  HaversineTable holds the value of     *)
(* haversine() of geoValidator.ts (IEEE doubles) for the points of the     *)
(* model, in metres rounded down; on these points the rounding preserves   *)
(* both the order and the ties of the doubles.                             *)
(***************************************************************************)
HaversineTable ==
    <<1300, 8000, 1300, 8000>> :> 0 @@
    <<1300, 8000, 1350, 8050>> :> 77587 @@
    <<1300, 8000, 1305, 8002>> :> 5967 @@
    <<1300, 8000, 1300, 8050>> :> 54172 @@
    <<1300, 8000, 1300, 7950>> :> 54172 @@
    <<1350, 8050, 1300, 8000>> :> 77587 @@
    <<1350, 8050, 1350, 8050>> :> 0 @@
    <<1350, 8050, 1305, 8002>> :> 72126 @@
    <<1350, 8050, 1300, 8050>> :> 55597 @@
    <<1350, 8050, 1300, 7950>> :> 121678 @@
    <<1305, 8002, 1300, 8000>> :> 5967 @@
    <<1305, 8002, 1350, 8050>> :> 72126 @@
    <<1305, 8002, 1305, 8002>> :> 0 @@
    <<1305, 8002, 1300, 8050>> :> 52296 @@
    <<1305, 8002, 1300, 7950>> :> 56607 @@
    <<1300, 8050, 1300, 8000>> :> 54172 @@
    <<1300, 8050, 1350, 8050>> :> 55597 @@
    <<1300, 8050, 1305, 8002>> :> 52296 @@
    <<1300, 8050, 1300, 8050>> :> 0 @@
    <<1300, 8050, 1300, 7950>> :> 108344 @@
    <<1300, 7950, 1300, 8000>> :> 54172 @@
    <<1300, 7950, 1350, 8050>> :> 121678 @@
    <<1300, 7950, 1305, 8002>> :> 56607 @@
    <<1300, 7950, 1300, 8050>> :> 108344 @@
    <<1300, 7950, 1300, 7950>> :> 0

\* geoValidator.ts:15-19
haversine(lat1, lon1, lat2, lon2) == HaversineTable[<<lat1, lon1, lat2, lon2>>]

(***************************************************************************)
(* Provider candidates.  A well-formed candidate has numeric lat and lon   *)
(* and a name; the malformed candidate is the object {} (no lat, no lon,   *)
(* no namedetails, no display_name): its distance to anything is NaN and   *)
(* reading its display_name throws.                                        *)
(***************************************************************************)
Cand(lat, lon, nm, disp) ==
    [ok |-> TRUE, lat |-> lat, lon |-> lon, name |-> nm, display_name |-> disp]

Malformed ==
    [ok |-> FALSE, lat |-> 0, lon |-> 0, name |-> "", display_name |-> ""]

PlaceNear == Cand(1305, 8002, "Near", "Near, TN")
PlaceFar  == Cand(1350, 8050, "", "Far, TN")
PlaceEast == Cand(1300, 8050, "East", "East, TN")
PlaceWest == Cand(1300, 7950, "West", "West, TN")

Point(lat, lon) == [lat |-> lat, lon |-> lon]
AnchorPoint == Point(1300, 8000)

\* the first comma-separated part of display_name, trimmed
FirstPart(disp) ==
    CASE disp = "Near, TN" -> "Near"
      [] disp = "Far, TN"  -> "Far"
      [] disp = "East, TN" -> "East"
      [] disp = "West, TN" -> "West"
      [] OTHER -> disp

\* geoValidator.ts:43  haversine(anchor, a) <= haversine(anchor, b); a
\* comparison with NaN is false
NearerOrEqualStrict(anchor, a, b) ==
    /\ a.ok
    /\ b.ok
    /\ haversine(anchor.lat, anchor.lon, a.lat, a.lon)
         < haversine(anchor.lat, anchor.lon, b.lat, b.lon)

NearerOrEqual(anchor, a, b) ==
    /\ a.ok
    /\ b.ok
    /\ haversine(anchor.lat, anchor.lon, a.lat, a.lon)
         <= haversine(anchor.lat, anchor.lon, b.lat, b.lon)

\* geoValidator.ts:42-44  results.reduce((a, b) => ... ? a : b), no initial
\* value: the accumulator starts as results[0]
RECURSIVE Reduce(_, _, _)
Reduce(anchor, acc, rest) ==
    IF rest = <<>> THEN acc
    ELSE Reduce(anchor,
                IF NearerOrEqual(anchor, acc, Head(rest)) THEN acc ELSE Head(rest),
                Tail(rest))

SelectBestIgnoresAnchor(anchor, results) == results[1]

\* geoValidator.ts:40-45  (results is non-empty)
SelectBest(anchor, results) ==
    IF anchor # Null /\ Len(results) > 1
    THEN Reduce(anchor[1], results[1], Tail(results))
    ELSE results[1]

\* geoValidator.ts:47-49; defined when best is well-formed
ResultOf(best) ==
    [lat |-> best.lat, lon |-> best.lon,
     corrected |-> IF best.name # "" THEN best.name
                   ELSE FirstPart(best.display_name)]


(***************************************************************************)
(* GeocodeResolver: geocodeStop and geocodeStopSequence (geoValidator.ts). *)
(***************************************************************************)
GeoCands == {PlaceNear, PlaceFar, Malformed}

\* What `await fetch(url).then(r => r.json()).catch(() => [])` yields:
\*   "fail"   network failure or unparseable body: the catch gives []
\*   "object" a JSON value that is no array (results.length is undefined)
\*   "null"   the JSON value null (results.length throws a TypeError)
\*   "array"  an array of candidates
GeoResp ==
    [kind : {"fail", "object", "null"}, cands : {<<>>}]
      \cup [kind : {"array"}, cands : SeqsUpTo(GeoCands, MaxCands)]

\* geoValidator.ts:28-32
NQueries == 3

NoCall == [pc |-> "none", owner |-> "", name |-> <<>>, ret |-> Null,
           reqs |-> 0, exp |-> <<>>]

IdleSeq ==
    [pc |-> "idle", names |-> <<>>, i |-> 0, results |-> <<>>,
     anchor |-> Null, passed |-> <<>>, got |-> Null]

GeoKeys == {CacheKey(n) : n \in RawNames}

GeoInit ==
    /\ _cache = <<>>
    /\ calls = EmptyBag
    /\ geoLast = NoCall
    /\ seq = IdleSeq
    /\ geoFirst = [k \in GeoKeys |-> <<>>]

\* A geocodeStop invocation in flight: query qi has been issued (after its
\* 250 ms timer, which touches no shared state) and its answer is awaited.
\* exp is history: what the first completed call for the key had returned
\* when this call started (<<>> when none had completed).
InFlight(owner, name, anchor) ==
    [owner |-> owner, name |-> name, anchor |-> anchor, qi |-> 1,
     exp |-> geoFirst[CacheKey(name)]]

Settled(pc, owner, name, ret, reqs, exp) ==
    [pc |-> pc, owner |-> owner, name |-> name, ret |-> ret, reqs |-> reqs,
     exp |-> exp]

CacheHasNever(cacheKey) == FALSE

\* geoValidator.ts:26  _cache.has(cacheKey)
CacheHas(cacheKey) == cacheKey \in DOMAIN _cache

\* history: the value returned by the first call that completed for the key
NoteFirst(call) ==
    IF call.pc = "done" /\ geoFirst[CacheKey(call.name)] = <<>>
    THEN [geoFirst EXCEPT ![CacheKey(call.name)] = <<call.ret>>]
    ELSE geoFirst

\* The continuation of geocodeStopSequence after `await geocodeStop(...)`
\* is a microtask: it runs before any timer or network callback.
MicrotaskPending == seq.pc = "resume"

\* geoValidator.ts:21-35  geocodeStop(name, anchor) up to its first await:
\* a cache hit returns at once, a miss leaves the call in flight
GeoStart(name, anchor) ==
    /\ ~MicrotaskPending
    /\ IF CacheHas(CacheKey(name))
       THEN LET call == Settled("done", "direct", name,
                                _cache[CacheKey(name)], 0,
                                geoFirst[CacheKey(name)])
            IN  /\ geoLast' = call
                /\ geoFirst' = NoteFirst(call)
                /\ UNCHANGED calls
       ELSE /\ BagCardinality(calls) < MaxCalls
            /\ calls' = calls (+) SetToBag({InFlight("direct", name, anchor)})
            /\ UNCHANGED <<geoLast, geoFirst>>
    /\ UNCHANGED <<_cache, seq, nonGeoVars>>

CacheSetIfAbsent(cacheKey, v) ==
    IF cacheKey \in DOMAIN _cache THEN _cache ELSE MapSet(_cache, cacheKey, v)

\* geoValidator.ts:50, 54  _cache.set(cacheKey, v)
CacheSet(cacheKey, v) == MapSet(_cache, cacheKey, v)

\* geoValidator.ts:37-55: the provider's answer to query qi arrives.  The
\* value is [pc, ret, cache]: how the call goes on ("next": the next query
\* is issued; "done": it returns ret; "threw": it rejects) and _cache
\* afterwards.
Respond(call, resp) ==
    LET cacheKey == CacheKey(call.name)
        results  == resp.cands
        best     == SelectBest(call.anchor, results)
    IN  CASE resp.kind = "null" ->
               \* results.length throws a TypeError
               [pc |-> "threw", ret |-> Null, cache |-> _cache]
          [] resp.kind # "null" /\ results = <<>> /\ call.qi < NQueries ->
               \* if (!results.length) continue;
               [pc |-> "next", ret |-> Null, cache |-> _cache]
          [] resp.kind # "null" /\ results = <<>> /\ call.qi = NQueries ->
               \* _cache.set(cacheKey, null); return null;
               [pc |-> "done", ret |-> Null, cache |-> CacheSet(cacheKey, Null)]
          [] resp.kind # "null" /\ results # <<>> /\ ~best.ok ->
               \* best.display_name.split throws a TypeError
               [pc |-> "threw", ret |-> Null, cache |-> _cache]
          [] OTHER ->
               [pc |-> "done", ret |-> Some(ResultOf(best)),
                cache |-> CacheSet(cacheKey, Some(ResultOf(best)))]

GeoRespond(call, resp) ==
    /\ ~MicrotaskPending
    /\ BagIn(call, calls)
    /\ LET r    == Respond(call, resp)
           rest == calls (-) SetToBag({call})
           done == Settled(r.pc, call.owner, call.name, r.ret, call.qi,
                           call.exp)
       IN  /\ _cache' = r.cache
           /\ IF r.pc = "next"
              THEN /\ calls' = rest (+) SetToBag({[call EXCEPT !.qi = @ + 1]})
                   /\ UNCHANGED <<geoLast, geoFirst, seq>>
              ELSE /\ calls' = rest
                   /\ geoLast' = done
                   /\ geoFirst' = NoteFirst(done)
                   /\ IF call.owner = "seq"
                      THEN seq' = [seq EXCEPT !.pc = "resume",
                                              !.got = <<r.pc, r.ret>>]
                      ELSE UNCHANGED seq
    /\ UNCHANGED nonGeoVars

\* geoValidator.ts:63  await geocodeStop(name, anchor) called by the
\* sequence: a cache hit settles at once, a miss leaves the call in flight
SeqCall(s, name, anchor) ==
    IF CacheHas(CacheKey(name))
    THEN LET call == Settled("done", "seq", name, _cache[CacheKey(name)], 0,
                             geoFirst[CacheKey(name)])
         IN  /\ seq' = [s EXCEPT !.pc = "resume", !.got = <<"done", call.ret>>,
                                 !.passed = Append(@, anchor)]
             /\ geoLast' = call
             /\ geoFirst' = NoteFirst(call)
             /\ UNCHANGED calls
    ELSE /\ seq' = [s EXCEPT !.pc = "await", !.passed = Append(@, anchor)]
         /\ calls' = calls (+) SetToBag({InFlight("seq", name, anchor)})
         /\ UNCHANGED <<geoLast, geoFirst>>

\* geoValidator.ts:58-63: geocodeStopSequence(names) up to its first await
SeqStart(names) ==
    /\ seq.pc = "idle"
    /\ BagCardinality(calls) < MaxCalls
    /\ IF names = <<>>
       THEN /\ seq' = [seq EXCEPT !.pc = "done"]
            /\ UNCHANGED <<calls, geoLast, geoFirst>>
       ELSE SeqCall([seq EXCEPT !.names = names, !.i = 1], names[1], Null)
    /\ UNCHANGED <<_cache, nonGeoVars>>

NextAnchorLatest(anchor, r) == IF r # Null THEN r ELSE anchor

\* geoValidator.ts:65  if (r && !anchor) anchor = r;
NextAnchor(anchor, r) == IF r # Null /\ anchor = Null THEN r ELSE anchor

\* geoValidator.ts:63-68: the awaited geocodeStop settled.  Fulfilled: push
\* the result, set the anchor, call geocodeStop for the next name or return
\* the results.  Rejected: geocodeStopSequence rejects.
SeqResume ==
    /\ seq.pc = "resume"
    /\ IF seq.got[1] = "threw"
       THEN /\ seq' = [seq EXCEPT !.pc = "threw", !.got = Null]
            /\ UNCHANGED <<calls, geoLast, geoFirst>>
       ELSE LET r       == seq.got[2]
                results == Append(seq.results, r)
                anchor  == NextAnchor(seq.anchor, r)
                s       == [seq EXCEPT !.results = results,
                                       !.anchor = anchor, !.got = Null]
            IN  IF seq.i < Len(seq.names)
                THEN SeqCall([s EXCEPT !.i = @ + 1], seq.names[seq.i + 1],
                             anchor)
                ELSE /\ seq' = [s EXCEPT !.pc = "done"]
                     /\ UNCHANGED <<calls, geoLast, geoFirst>>
    /\ UNCHANGED <<_cache, nonGeoVars>>

GeoAnchors == {Null, Some(AnchorPoint)}

\* geocodeStop called directly, by any number of callers
GeoNext ==
    \/ \E name \in RawNames, anchor \in GeoAnchors : GeoStart(name, anchor)
    \/ \E call \in BagToSet(calls), resp \in GeoResp : GeoRespond(call, resp)

\* one geocodeStopSequence invocation
SeqNext ==
    \/ \E names \in SeqsUpTo(RawNames, MaxSeqLen) : SeqStart(names)
    \/ \E call \in BagToSet(calls), resp \in GeoResp : GeoRespond(call, resp)
    \/ SeqResume

(***************************************************************************)
(* The anchor selection of geocodeStop as a function of its inputs.        *)
(***************************************************************************)
SelCands == {PlaceNear, PlaceFar, PlaceEast, PlaceWest}

SelIdle ==
    /\ selIn = [anchor |-> Null, results |-> <<PlaceNear>>]
    /\ selOut = <<>>

SelInit ==
    /\ selIn \in [anchor : GeoAnchors,
                  results : SeqsUpTo(SelCands, MaxSelCands) \ {<<>>}]
    /\ selOut = <<>>

\* geoValidator.ts:40-45
Select ==
    /\ selOut = <<>>
    /\ selOut' = <<SelectBest(selIn.anchor, selIn.results)>>
    /\ UNCHANGED <<selIn, nonSelVars>>

(***************************************************************************)
(* GeometryWorker: filterNoisyGps (routeWorker.ts).  Fixes are in 1e-5     *)
(* degree.  GpsDistTable holds the great-circle distance the handler       *)
(* computes (IEEE doubles, Rm = 6371000) for the fixes of the model, in    *)
(* millimetres rounded down; the thresholds are whole metres, so           *)
(* `dist >= minDist` is decided as on the doubles.                         *)
(***************************************************************************)
GpsDistTable ==
    <<0, 0, 0, 0>> :> 0 @@
    <<0, 0, 0, 5>> :> 5559 @@
    <<0, 0, 0, 18>> :> 20015 @@
    <<0, 0, 0, 23>> :> 25574 @@
    <<0, 0, 0, 100>> :> 111194 @@
    <<0, 5, 0, 0>> :> 5559 @@
    <<0, 5, 0, 5>> :> 0 @@
    <<0, 5, 0, 18>> :> 14455 @@
    <<0, 5, 0, 23>> :> 20015 @@
    <<0, 5, 0, 100>> :> 105635 @@
    <<0, 18, 0, 0>> :> 20015 @@
    <<0, 18, 0, 5>> :> 14455 @@
    <<0, 18, 0, 18>> :> 0 @@
    <<0, 18, 0, 23>> :> 5559 @@
    <<0, 18, 0, 100>> :> 91179 @@
    <<0, 23, 0, 0>> :> 25574 @@
    <<0, 23, 0, 5>> :> 20015 @@
    <<0, 23, 0, 18>> :> 5559 @@
    <<0, 23, 0, 23>> :> 0 @@
    <<0, 23, 0, 100>> :> 85620 @@
    <<0, 100, 0, 0>> :> 111194 @@
    <<0, 100, 0, 5>> :> 105635 @@
    <<0, 100, 0, 18>> :> 91179 @@
    <<0, 100, 0, 23>> :> 85620 @@
    <<0, 100, 0, 100>> :> 0

\* routeWorker.ts:203-208  dist, in millimetres
GpsDist(prev, cur) == GpsDistTable[<<prev.lat, prev.lon, cur.lat, cur.lon>>]

GpsFixes == {Point(0, lon) : lon \in {0, 5, 18, 23, 100}}

\* routeWorker.ts:196  the default threshold, in metres
DefaultMinDist == 20

GpsThresholds == {<<>>, <<0>>, <<20>>, <<100>>}

\* routeWorker.ts:196
MinDist(minDistMeters) ==
    IF minDistMeters # <<>> THEN minDistMeters[1] ELSE DefaultMinDist

\* routeWorker.ts:200-210  the loop from index k on; filtered is non-empty
RECURSIVE FilterFromPrevRaw(_, _, _, _)
FilterFromPrevRaw(rawPoints, k, filtered, minDist) ==
    IF k > Len(rawPoints) THEN filtered
    ELSE FilterFromPrevRaw(rawPoints, k + 1,
             IF GpsDist(rawPoints[k - 1], rawPoints[k]) >= minDist * 1000
             THEN Append(filtered, rawPoints[k]) ELSE filtered,
             minDist)

RECURSIVE FilterFrom(_, _, _, _)
FilterFrom(rawPoints, k, filtered, minDist) ==
    IF k > Len(rawPoints) THEN filtered
    ELSE LET prev == filtered[Len(filtered)]
             cur  == rawPoints[k]
         IN  FilterFrom(rawPoints, k + 1,
                 IF GpsDist(prev, cur) >= minDist * 1000
                 THEN Append(filtered, cur) ELSE filtered,
                 minDist)

\* routeWorker.ts:194-212  case 'filterNoisyGps': the points of the response
FilterNoisyGps(rawPoints, minDistMeters) ==
    IF rawPoints = <<>> THEN <<>>
    ELSE FilterFrom(rawPoints, 2, <<rawPoints[1]>>, MinDist(minDistMeters))

GpsIdle ==
    /\ gpsIn = [rawPoints |-> <<>>, minDistMeters |-> <<>>]
    /\ gpsOut = <<>>

GpsInputs ==
    /\ gpsIn \in [rawPoints : SeqsUpTo(GpsFixes, MaxFixes),
                  minDistMeters : GpsThresholds]
    /\ gpsOut = <<>>

\* self.onmessage with a filterNoisyGps request: posts filteredGps
OnFilterNoisyGps ==
    /\ gpsOut = <<>>
    /\ gpsOut' = <<FilterNoisyGps(gpsIn.rawPoints, gpsIn.minDistMeters)>>
    /\ UNCHANGED <<gpsIn, nonGpsVars>>

GpsNext == OnFilterNoisyGps

(***************************************************************************)
(* MotionInterpolator: animateMarkerTo and cancelAnimation                 *)
(* (animationWorker.ts).  Positions are integers (fixed point), t is the   *)
(* fraction n / durationMs with n = min(now - start, durationMs), and the  *)
(* interpolated position is rounded down; at t = 1 it is exact.            *)
(***************************************************************************)
Tracks == {"bus", "aux"}
Targets == {Point(8, 0), Point(0, 8)}
Durations == {2, 4}
Origin == Point(0, 0)

MapDelete(m, k) == [x \in (DOMAIN m) \ {k} |-> m[x]]

NoHist ==
    [count |-> 0, superseded |-> {}, stale |-> FALSE, touched |-> {},
     last |-> [id \in Tracks |-> <<>>],
     cancelled |-> {}, finished |-> {}, outOfRange |-> FALSE]

AnimInit ==
    /\ _animations = <<>>
    /\ raf = <<>>
    /\ rafNext = 1
    /\ marker = Origin
    /\ now = 0
    /\ animHist = NoHist

\* animationWorker.ts:23-24  ease, as the numerator over durationMs^2
EaseNum(n, durationMs) ==
    IF 2 * n < durationMs
    THEN 2 * n * n
    ELSE 4 * n * durationMs - 2 * n * n - durationMs * durationMs

\* animationWorker.ts:25  from + (to - from) * ease
Lerp(from, to, n, durationMs) ==
    from + ((to - from) * EaseNum(n, durationMs)) \div (durationMs * durationMs)

CancelledKeepsFrame(anims, pending, id) == [anims |-> MapDelete(anims, id), raf |-> pending]

\* animationWorker.ts:34-37  cancelAnimation(id) on the maps given: the
\* value is [anims, raf] afterwards (cancelAnimationFrame of a handle that
\* is not pending does nothing)
Cancelled(anims, pending, id) ==
    IF id \in DOMAIN anims
    THEN [anims |-> MapDelete(anims, id), raf |-> MapDelete(pending, anims[id])]
    ELSE [anims |-> anims, raf |-> pending]

\* whether an animation of the track has a frame callback pending
InFlightAnim(id) == id \in DOMAIN _animations /\ _animations[id] \in DOMAIN raf

\* animationWorker.ts:11-30  animateMarkerTo(marker, toLat, toLon, durationMs, id)
AnimateMarkerTo(id, to, durationMs) ==
    /\ animHist.count < MaxAnims
    /\ LET c    == Cancelled(_animations, raf, id)
           anim == animHist.count + 1
           step == [id |-> id, from |-> marker, to |-> to, start |-> now,
                    durationMs |-> durationMs, anim |-> anim]
       IN  /\ raf' = MapSet(c.raf, rafNext, step)
           /\ _animations' = MapSet(c.anims, id, rafNext)
           /\ rafNext' = rafNext + 1
           /\ animHist' =
                [animHist EXCEPT
                   !.count = anim,
                   !.superseded =
                       IF InFlightAnim(id)
                       THEN @ \cup {raf[_animations[id]].anim} ELSE @,
                   !.touched = @ \cup {id},
                   !.last[id] =
                       <<[to |-> to, from |-> marker,
                          superseding |-> InFlightAnim(id),
                          prevTo |-> IF InFlightAnim(id)
                                     THEN raf[_animations[id]].to ELSE to]>>]
    /\ UNCHANGED <<marker, now, nonAnimVars>>

\* animationWorker.ts:34-37  cancelAnimation(id)
CancelAnimation(id) ==
    /\ LET c == Cancelled(_animations, raf, id) IN
         /\ _animations' = c.anims
         /\ raf' = c.raf
    /\ animHist' = [animHist EXCEPT
                       !.last[id] = <<>>,
                       !.cancelled = IF InFlightAnim(id)
                                     THEN @ \cup {raf[_animations[id]].anim}
                                     ELSE @]
    /\ UNCHANGED <<rafNext, marker, now, nonAnimVars>>

ReschedulesAlways(n, durationMs) == TRUE

\* animationWorker.ts:26  t < 1, with t = n / durationMs
Reschedules(n, durationMs) == n < durationMs

\* animationWorker.ts:22-27  step(now) of one closure, on the state st =
\* [marker, anims, raf, next, stale, finished, outOfRange] of the frame so
\* far (history: finished, the animations whose step ran with t = 1 and
\* whether it wrote the target; outOfRange, whether a step had t outside
\* [0, 1])
Step(st, c, t) ==
    LET n   == IF t - c.start < c.durationMs THEN t - c.start ELSE c.durationMs
        pos == Point(Lerp(c.from.lat, c.to.lat, n, c.durationMs),
                     Lerp(c.from.lon, c.to.lon, n, c.durationMs))
        again == Reschedules(n, c.durationMs)
    IN  [marker |-> pos,
         anims  |-> IF again THEN MapSet(st.anims, c.id, st.next)
                    ELSE st.anims,
         raf    |-> IF again THEN MapSet(st.raf, st.next, c)
                    ELSE st.raf,
         next   |-> IF again THEN st.next + 1 ELSE st.next,
         stale  |-> st.stale \/ c.anim \in animHist.superseded,
         finished |-> IF n = c.durationMs
                      THEN st.finished \cup
                             {[anim |-> c.anim, atTarget |-> pos = c.to]}
                      ELSE st.finished,
         outOfRange |-> st.outOfRange \/ n < 0 \/ n > c.durationMs]

\* the browser runs the callbacks that were pending when the frame began,
\* in the order of their handles
RECURSIVE RunFrame(_, _, _)
RunFrame(st, handles, t) ==
    IF handles = {} THEN st
    ELSE LET h == CHOOSE x \in handles : \A y \in handles : x <= y
         IN  RunFrame(Step(st, raf[h], t), handles \ {h}, t)

\* one display frame, dt time units after the previous one
Frame(dt) ==
    /\ now + dt <= MaxTime
    /\ now' = now + dt
    /\ LET st == RunFrame([marker |-> marker, anims |-> _animations,
                           raf |-> <<>>, next |-> rafNext,
                           stale |-> animHist.stale,
                           finished |-> animHist.finished,
                           outOfRange |-> animHist.outOfRange],
                          DOMAIN raf, now + dt)
       IN  /\ marker' = st.marker
           /\ _animations' = st.anims
           /\ raf' = st.raf
           /\ rafNext' = st.next
           /\ animHist' = [animHist EXCEPT !.stale = st.stale,
                                           !.finished = st.finished,
                                           !.outOfRange = st.outOfRange]
    /\ UNCHANGED nonAnimVars

AnimNext ==
    \/ \E id \in Tracks, to \in Targets, durationMs \in Durations :
         AnimateMarkerTo(id, to, durationMs)
    \/ \E id \in Tracks : CancelAnimation(id)
    \/ \E dt \in 1..2 : Frame(dt)

\* the browser delivers the next display frame
FrameAny == \E dt \in 1..2 : Frame(dt)

\* animateMarkerTo called while its duration still fits before the time at
\* which the model stops the clock
AnimateInHorizon(id, to, durationMs) ==
    /\ now + durationMs <= MaxTime
    /\ AnimateMarkerTo(id, to, durationMs)

\* animationWorker.ts:15  id = 'bus': the track of the fair specification
\* (an animation shares _animations[id] with those of its own track only)
FairTracks == {"bus"}

AnimFairNext ==
    \/ \E id \in FairTracks, to \in Targets, durationMs \in Durations :
         AnimateInHorizon(id, to, durationMs)
    \/ \E id \in FairTracks : CancelAnimation(id)
    \/ FrameAny

(***************************************************************************)
(* RouteCache (routeCache.ts).  Stop coordinates are in 1e-6 degree.       *)
(* Numbers that JSON cannot carry are kept apart: Num(v) is the number v,  *)
(* NaNVal is NaN, JNull is what JSON.parse gives back for a stringified    *)
(* NaN.  The cachedAt field of an entry (Date.now()) is written and never  *)
(* read by routeCache.ts; the entries of the model are without it.         *)
(***************************************************************************)
Num(v) == [kind |-> "num", v |-> v]
NaNVal == [kind |-> "nan", v |-> 0]
JNull  == [kind |-> "null", v |-> 0]

ToFixed5Truncates(x) ==
    [neg |-> x < 0, n |-> (IF x < 0 THEN -x ELSE x) \div 10]

\* Number.prototype.toFixed(5) of a coordinate given in 1e-6 degree: the
\* sign and the digits, as the count of 1e-5 degree.  (No coordinate of
\* the model lies exactly between two roundings.)
ToFixed5(x) ==
    [neg |-> x < 0, n |-> ((IF x < 0 THEN -x ELSE x) + 5) \div 10]

\* routeCache.ts:20-22
makeKey(stops, profile) ==
    <<profile, [i \in 1..Len(stops) |->
                  <<ToFixed5(stops[i].lon), ToFixed5(stops[i].lat)>>]>>

StopsA  == <<Point(12, 24), Point(100, 200)>>
StopsAj == <<Point(14, 23), Point(101, 199)>>   \* StopsA with jitter

\* the (stops, profile) arguments of the model
RcArgs == {<<StopsA, "driving">>, <<StopsAj, "driving">>, <<StopsA, "walking">>}

RcKeys == {makeKey(a[1], a[2]) : a \in RcArgs}

PointsA == << <<12, 24>>, <<100, 200>> >>
PointsB == << <<12, 24>>, <<50, 60>>, <<100, 200>> >>

\* the data argument of RouteCache.set: Omit<CachedRoute, 'cachedAt'>
RcData == {[points |-> PointsA, distanceKm |-> Num(5)],
           [points |-> PointsB, distanceKm |-> NaNVal]}

\* JSON.stringify of a number: NaN becomes null
JsonNumber(x) == IF x.kind = "nan" THEN JNull ELSE x

\* routeCache.ts:39  JSON.stringify(entry)
JsonStringify(entry) ==
    <<"json", [points |-> entry.points,
               distanceKm |-> JsonNumber(entry.distanceKm)]>>

\* a stored string that JSON.parse rejects
Garbage == <<"garbage">>

\* routeCache.ts:30  JSON.parse(raw): <<v>>, or <<>> when it throws
JsonParse(raw) == IF raw[1] = "json" THEN <<raw[2]>> ELSE <<>>

RcInit ==
    /\ _mem = <<>>
    /\ sessionStorage = <<>>
    /\ prewarms = <<>>
    /\ rcSet = <<>>
    /\ rcGot = <<>>
    /\ rcEver = {}

\* what get returns on a miss
Miss(mem, read2) ==
    [ret |-> Null, mem |-> mem, tier |-> 0, read2 |-> read2, threw |-> FALSE]

\* what get returns when tier 2 serves the parsed value v
Tier2Hit(mem, key, v) ==
    [ret |-> Some(v), mem |-> MapSet(mem, key, v), tier |-> 2, read2 |-> TRUE,
     threw |-> FALSE]

GetSkipsMem(mem, store, stops, profile, readOk) ==
    LET key == makeKey(stops, profile) IN
    IF readOk /\ key \in DOMAIN store /\ JsonParse(store[key]) # <<>>
    THEN Tier2Hit(mem, key, JsonParse(store[key])[1])
    ELSE Miss(mem, TRUE)

GetNoPromote(mem, store, stops, profile, readOk) ==
    LET key == makeKey(stops, profile) IN
    IF key \in DOMAIN mem
    THEN [ret |-> Some(mem[key]), mem |-> mem, tier |-> 1, read2 |-> FALSE,
          threw |-> FALSE]
    ELSE IF readOk /\ key \in DOMAIN store /\ JsonParse(store[key]) # <<>>
         THEN [Tier2Hit(mem, key, JsonParse(store[key])[1]) EXCEPT !.mem = mem]
         ELSE Miss(mem, TRUE)

GetPromotesUnparsed(mem, store, stops, profile, readOk) ==
    LET key == makeKey(stops, profile) IN
    IF key \in DOMAIN mem
    THEN [ret |-> Some(mem[key]), mem |-> mem, tier |-> 1, read2 |-> FALSE,
          threw |-> FALSE]
    ELSE IF readOk /\ key \in DOMAIN store
         THEN IF JsonParse(store[key]) # <<>>
              THEN Tier2Hit(mem, key, JsonParse(store[key])[1])
              ELSE Miss(MapSet(mem, key, [points |-> <<>>, distanceKm |-> JNull]),
                        TRUE)
         ELSE Miss(mem, TRUE)

\* routeCache.ts:25-33  RouteCache.get(stops, profile) on the tiers given:
\* the value is [ret, mem, tier, read2, threw]: what it returns, _mem
\* afterwards, the tier that served it (0: none), whether it called
\* sessionStorage.getItem, and whether it threw.  readOk is whether
\* sessionStorage.getItem returns (it throws when storage is denied); a
\* throw of getItem or of JSON.parse is caught.
Get(mem, store, stops, profile, readOk) ==
    LET key == makeKey(stops, profile) IN
    IF key \in DOMAIN mem
    THEN [ret |-> Some(mem[key]), mem |-> mem, tier |-> 1, read2 |-> FALSE,
          threw |-> FALSE]
    ELSE IF readOk /\ key \in DOMAIN store /\ JsonParse(store[key]) # <<>>
         THEN Tier2Hit(mem, key, JsonParse(store[key])[1])
         ELSE Miss(mem, TRUE)

SetStorageFirst(mem, store, stops, data, profile, quotaOk) ==
    LET key   == makeKey(stops, profile)
        entry == [points |-> data.points, distanceKm |-> data.distanceKm]
    IN  IF quotaOk
        THEN [mem |-> MapSet(mem, key, entry),
              store |-> MapSet(store, key, JsonStringify(entry)),
              threw |-> FALSE]
        ELSE [mem |-> mem, store |-> store, threw |-> TRUE]

\* routeCache.ts:35-40  RouteCache.set(stops, data, profile): the value is
\* [mem, store, threw]: the tiers afterwards and whether it threw.  quotaOk
\* is whether sessionStorage.setItem succeeds; its throw is caught.
Set(mem, store, stops, data, profile, quotaOk) ==
    LET key   == makeKey(stops, profile)
        entry == [points |-> data.points, distanceKm |-> data.distanceKm]
    IN  [mem   |-> MapSet(mem, key, entry),
         store |-> IF quotaOk THEN MapSet(store, key, JsonStringify(entry))
                   ELSE store,
         threw |-> FALSE]

\* a tier's entry under the key, if any
Held(tier, key) == IF key \in DOMAIN tier THEN <<tier[key]>> ELSE <<>>

\* RouteCache.get called by the page.  rcGot records the call: its key,
\* what get gave (ret, tier, read2, threw), what the tiers held before it
\* (had1, had2), the directly preceding set of the same stops and profile
\* (exp: its data, quotaOk: whether its tier-2 write succeeded) and the
\* directly preceding get (prev).
RcGet(stops, profile, readOk) ==
    /\ LET g   == Get(_mem, sessionStorage, stops, profile, readOk)
           key == makeKey(stops, profile)
           same == /\ rcSet # <<>>
                   /\ rcSet[1].stops = stops
                   /\ rcSet[1].profile = profile
       IN
         /\ _mem' = g.mem
         /\ rcGot' = <<[ret |-> g.ret,
                        exp |-> IF same THEN <<rcSet[1].data>> ELSE <<>>,
                        quotaOk |-> IF same THEN rcSet[1].quotaOk ELSE TRUE,
                        fresh |-> key \notin rcEver,
                        key |-> key, tier |-> g.tier, read2 |-> g.read2,
                        threw |-> g.threw, readOk |-> readOk,
                        had1 |-> Held(_mem, key),
                        had2 |-> Held(sessionStorage, key),
                        prev |-> IF rcGot # <<>>
                                 THEN <<[key |-> rcGot[1].key,
                                         tier |-> rcGot[1].tier,
                                         ret |-> rcGot[1].ret]>>
                                 ELSE <<>>]>>
    /\ rcSet' = <<>>
    /\ UNCHANGED <<sessionStorage, prewarms, rcEver, nonRcVars>>

\* RouteCache.set called by the page
RcSet(stops, data, profile, quotaOk) ==
    /\ LET w == Set(_mem, sessionStorage, stops, data, profile, quotaOk) IN
         /\ _mem' = w.mem
         /\ sessionStorage' = w.store
         /\ rcSet' = <<[stops |-> stops, profile |-> profile, data |-> data,
                        quotaOk |-> quotaOk, threw |-> w.threw]>>
    /\ rcEver' = rcEver \cup {makeKey(stops, profile)}
    /\ rcGot' = <<>>
    /\ UNCHANGED <<prewarms, nonRcVars>>

\* The routing provider's answer to prewarm's request:
\*   "route"   routes[0] with its geometry.coordinates ([lon, lat] pairs)
\*             and distance in metres (<<>>: the field is missing)
\*   "noroute" a body without routes (or with an empty routes array)
\*   "throw"   the fetch fails, the body is no JSON, or routes[0] has no
\*             geometry: the promise prewarm returned rejects
RcRoutes ==
    {[kind |-> "route", coordinates |-> << <<24, 12>>, <<200, 100>> >>,
      distance |-> <<5000>>],
     [kind |-> "route", coordinates |-> << <<24, 12>>, <<60, 50>>, <<200, 100>> >>,
      distance |-> <<>>],
     [kind |-> "noroute", coordinates |-> <<>>, distance |-> <<>>],
     [kind |-> "throw", coordinates |-> <<>>, distance |-> <<>>]}

\* routeCache.ts:48  coordinates.map(c => [c[1], c[0]])
Flip(coordinates) ==
    [i \in 1..Len(coordinates) |-> <<coordinates[i][2], coordinates[i][1]>>]

\* routeCache.ts:49  distance / 1000 (undefined / 1000 is NaN; the
\* distances of the model are whole kilometres)
DistanceKm(distance) ==
    IF distance = <<>> THEN NaNVal ELSE Num(distance[1] \div 1000)

SwallowedNot(pc) == pc

\* main.ts:192  RouteCache.prewarm(...).catch(() => {}): the state of the
\* promise warmRouteCache is left with, given that of prewarm's promise
Swallowed(pc) == IF pc = "threw" THEN "done" ELSE pc

\* routeCache.ts:42-45  RouteCache.prewarm(stops, profile), called by
\* warmRouteCache, up to its first await: a hit returns, a miss issues the
\* routing request.  Of a call, pc is the state of the promise prewarm
\* returned, outer that of the promise after the caller's catch, and resp
\* the kind of the provider's answer ("" before it).
PrewarmStart(stops, profile, readOk) ==
    /\ Len(prewarms) < MaxPrewarms
    /\ LET g == Get(_mem, sessionStorage, stops, profile, readOk) IN
         /\ _mem' = g.mem
         /\ prewarms' = Append(prewarms,
                [stops |-> stops, profile |-> profile,
                 pc |-> IF g.ret # Null THEN "done" ELSE "fetch",
                 outer |-> Swallowed(IF g.ret # Null THEN "done" ELSE "fetch"),
                 resp |-> "",
                 fetched |-> g.ret = Null])
    /\ rcSet' = <<>>
    /\ rcGot' = <<>>
    /\ UNCHANGED <<sessionStorage, rcEver, nonRcVars>>

\* routeCache.ts:45-49  the routing provider's answer arrives
PrewarmRespond(i, resp, quotaOk) ==
    /\ i \in 1..Len(prewarms)
    /\ prewarms[i].pc = "fetch"
    /\ rcSet' = <<>>
    /\ rcGot' = <<>>
    /\ IF resp.kind = "route"
       THEN LET data == [points |-> Flip(resp.coordinates),
                         distanceKm |-> DistanceKm(resp.distance)]
                w    == Set(_mem, sessionStorage, prewarms[i].stops, data,
                            prewarms[i].profile, quotaOk)
            IN  /\ _mem' = w.mem
                /\ sessionStorage' = w.store
                /\ rcEver' = rcEver \cup
                       {makeKey(prewarms[i].stops, prewarms[i].profile)}
                /\ prewarms' = [prewarms EXCEPT ![i].pc = "done",
                                                ![i].outer = Swallowed("done"),
                                                ![i].resp = resp.kind]
       ELSE /\ LET pc == IF resp.kind = "throw" THEN "threw" ELSE "done" IN
              prewarms' = [prewarms EXCEPT ![i].pc = pc,
                                           ![i].outer = Swallowed(pc),
                                           ![i].resp = resp.kind]
            /\ UNCHANGED <<_mem, sessionStorage, rcEver>>
    /\ UNCHANGED <<nonRcVars>>

\* the page is reloaded: tier 1 and the calls in flight are gone, tier 2
\* survives
RcReload ==
    /\ _mem' = <<>>
    /\ prewarms' = <<>>
    /\ rcSet' = <<>>
    /\ rcGot' = <<>>
    /\ UNCHANGED <<sessionStorage, rcEver, nonRcVars>>

\* other code of the page writes a string that is no JSON under a key
RcTamper(key) ==
    /\ sessionStorage' = MapSet(sessionStorage, key, Garbage)
    /\ rcEver' = rcEver \cup {key}
    /\ rcSet' = <<>>
    /\ rcGot' = <<>>
    /\ UNCHANGED <<_mem, prewarms, nonRcVars>>

RouteNext ==
    \/ \E a \in RcArgs, readOk \in BOOLEAN : RcGet(a[1], a[2], readOk)
    \/ \E a \in RcArgs, data \in RcData, quotaOk \in BOOLEAN :
         RcSet(a[1], data, a[2], quotaOk)
    \/ RcReload
    \/ \E key \in RcKeys : RcTamper(key)

PrewarmNext ==
    \/ \E a \in RcArgs, readOk \in BOOLEAN : PrewarmStart(a[1], a[2], readOk)
    \/ \E i \in 1..MaxPrewarms, resp \in RcRoutes, quotaOk \in BOOLEAN :
         PrewarmRespond(i, resp, quotaOk)
    \/ RcReload

(***************************************************************************)
(* makeKey as a function (routeCache.ts:20-22): a stop sequence and the    *)
(* same sequence with every coordinate moved by less than 1e-5 degree.     *)
(***************************************************************************)
KeyPoints == {Point(lat, lon) : lat \in {-4, 4, 12}, lon \in {4, 12}}

\* the jitter of the model, in 1e-6 degree
KeyJitter == {-8, -4, 0, 2, 8}

Jittered(stops, d) ==
    [i \in 1..Len(stops) |->
        Point(stops[i].lat + d[i][1], stops[i].lon + d[i][2])]

KeyIdle ==
    /\ keyIn = [stops |-> <<>>, jittered |-> <<>>, profile |-> "driving"]
    /\ keyOut = <<>>

KeyInputs ==
    /\ \E stops \in SeqsUpTo(KeyPoints, MaxKeyStops) :
         \E d \in [1..Len(stops) -> KeyJitter \X KeyJitter] :
           \E profile \in {"driving", "walking"} :
             keyIn = [stops |-> stops, jittered |-> Jittered(stops, d),
                      profile |-> profile]
    /\ keyOut = <<>>

\* routeCache.ts:20-40  the keys of the two sequences, and what get gives
\* for the jittered sequence after set for the original one on an empty
\* cache
MakeKeys ==
    /\ keyOut = <<>>
    /\ LET data == [points |-> PointsA, distanceKm |-> Num(5)]
           w    == Set(<<>>, <<>>, keyIn.stops, data, keyIn.profile, TRUE)
       IN  keyOut' = <<[k1 |-> makeKey(keyIn.stops, keyIn.profile),
                        k2 |-> makeKey(keyIn.jittered, keyIn.profile),
                        ret |-> Get(w.mem, w.store, keyIn.jittered,
                                    keyIn.profile, TRUE).ret,
                        data |-> data]>>
    /\ UNCHANGED <<keyIn, nonKeyVars>>

KeyNext == MakeKeys

(***************************************************************************)
(* EdgeRouteResolver: the edge function handler (routeResolver.ts).  A     *)
(* request is handled in steps that end at the handler's awaits; handlers  *)
(* of different requests interleave at these points.  The clock counts     *)
(* days.                                                                   *)
(***************************************************************************)

\* routeResolver.ts:217  expireIn: 86_400_000 ms, in days
EXPIRE_IN == 1

\* routeResolver.ts:116  slice(0, 200)
KEY_SLICE == 200

NameA == <<"a">>
NameB == <<"b">>
ListA  == <<NameA>>
ListAB == <<NameA, NameB>>
ListBA == <<NameB, NameA>>

\* what req.json() gives: BadJson when it rejects, else the body
\* (NullBody: the JSON value null, of which body.stops throws)
BadJson == [kind |-> "bad", stops |-> <<>>, busId |-> <<>>]
NullBody == [kind |-> "null", stops |-> <<>>, busId |-> <<>>]
Body(stops, busId) == [kind |-> "json", stops |-> stops, busId |-> busId]

\* the requests of the model: method and body
EdgeRequests ==
    {[method |-> "OPTIONS", body |-> BadJson],
     [method |-> "GET", body |-> BadJson],
     [method |-> "POST", body |-> BadJson],
     [method |-> "POST", body |-> NullBody],
     [method |-> "POST", body |-> Body(ListAB, <<>>)],
     [method |-> "POST", body |-> Body(ListAB, <<"7">>)],
     [method |-> "POST", body |-> Body(ListBA, <<>>)],
     [method |-> "POST", body |-> Body(ListA, <<>>)],
     [method |-> "POST", body |-> Body(<<>>, <<>>)],
     [method |-> "POST", body |-> Body(<<>>, <<"7">>)]}

\* what the record store answers to the lookup by busId: no rows, a
\* failure (the fetch or dbResp.json() rejects), or the row's stop list
DbAnswers ==
    {[kind |-> "none", stops |-> <<>>], [kind |-> "throw", stops |-> <<>>],
     [kind |-> "rows", stops |-> ListA], [kind |-> "rows", stops |-> ListAB]}

KeyChars ==
    {"a", "b", "c", "d", "e", "f", "g", "h", "i", "j", "k", "l", "m", "n",
     "o", "p", "q", "r", "s", "t", "u", "v", "w", "x", "y", "z",
     "A", "B", "C", "D", "E", "F", "G", "H", "I", "J", "K", "L", "M", "N",
     "O", "P", "Q", "R", "S", "T", "U", "V", "W", "X", "Y", "Z",
     "0", "1", "2", "3", "4", "5", "6", "7", "8", "9", "|"}

\* Array.prototype.join('|')
RECURSIVE Join(_)
Join(stops) ==
    IF stops = <<>> THEN <<>>
    ELSE IF Len(stops) = 1 THEN stops[1]
    ELSE stops[1] \o <<"|">> \o Join(Tail(stops))

\* routeResolver.ts:116  cacheKey
EdgeCacheKey(stops) ==
    LET joined   == Join(stops)
        replaced == [i \in 1..Len(joined) |->
                       IF joined[i] \in KeyChars THEN joined[i] ELSE "_"]
    IN  <<"route_">> \o SubSeq(replaced, 1,
                               IF Len(replaced) < KEY_SLICE THEN Len(replaced)
                               ELSE KEY_SLICE)

EdgeInit ==
    /\ edgeReqs = EmptyBag
    /\ edgeCount = 0
    /\ edgeLast = <<>>
    /\ edgeStored = {}
    /\ kvStore = <<>>
    /\ edgeNow = 0

\* a request as it arrives.  Fields of the handler: pc (the await it is
\* at, or "done"), eff (<<stops>> once the effective stop list is known),
\* kv (whether the KV store is open), i (stops geocoded so far), resolved
\* (resolvedStops), payload (the response body of a 200).  Fields of the
\* response: status, fromCache.  History: calls (the outside calls made
\* for the request), db (<<answer>> of the record store), found (<<value>>
\* the lookup found), threw (whether something threw into the catch-all),
\* repeatOf, hitDue, foundStale.
NewReq(req) ==
    [req |-> req, pc |-> "start", eff |-> <<>>, kv |-> FALSE, i |-> 0,
     resolved |-> <<>>, payload |-> <<>>, status |-> 0, fromCache |-> FALSE,
     calls |-> {}, db |-> <<>>, found |-> <<>>, threw |-> FALSE,
     repeatOf |-> {}, hitDue |-> FALSE, foundStale |-> FALSE]

\* new Response(...) returned by the handler
Answer(r, status, fromCache, payload) ==
    [r EXCEPT !.pc = "done", !.status = status, !.fromCache = fromCache,
              !.payload = payload]

InternalUnhandled(r) ==
    [r EXCEPT !.pc = "done", !.status = 0, !.threw = TRUE]

\* routeResolver.ts:222-225  the catch-all answers 500
Internal(r) == Answer([r EXCEPT !.threw = TRUE], 500, FALSE, <<>>)

NeedsDbAnyStops(body) == body.busId # <<>>

\* routeResolver.ts:97  !stops.length && body.busId
NeedsDb(body) == body.stops = <<>> /\ body.busId # <<>>

HitBodyRestamped(value) == [value EXCEPT !.cachedAt = edgeNow]

\* routeResolver.ts:125  { ...cached.value } of the response to a hit
HitBody(value) == value

TooFewOnlyEmpty(stops) == Len(stops) < 1

\* routeResolver.ts:111  stops.length < 2
TooFew(stops) == Len(stops) < 2

\* routeResolver.ts:111-120  from the length check to await Deno.openKv()
AfterStops(r, stops) ==
    IF TooFew(stops)
    THEN Answer([r EXCEPT !.eff = <<stops>>], 400, FALSE, <<>>)
    ELSE [r EXCEPT !.eff = <<stops>>, !.pc = "kv",
                   !.calls = @ \cup {"openKv"}]

\* the earlier answers that make a request arriving now a repeat: same
\* method and body, answered 200 with fromCache = false less than
\* EXPIRE_IN ago
RepeatOf(req) ==
    {a \in edgeStored : a.req = req /\ edgeNow < a.at + EXPIRE_IN}

\* the handler of request r has moved to r2: it awaits again, or it has
\* returned its response
Moved(r, r2) ==
    /\ edgeReqs' = IF r2.pc = "done" THEN edgeReqs (-) SetToBag({r})
                   ELSE (edgeReqs (-) SetToBag({r})) (+) SetToBag({r2})
    /\ edgeLast' = IF r2.pc = "done" THEN <<r2>> ELSE edgeLast
    /\ edgeStored' =
         IF r2.pc = "done" /\ r2.status = 200 /\ ~r2.fromCache
         THEN edgeStored \cup
                {[req |-> r2.req, eff |-> r2.eff, kv |-> r2.kv, at |-> edgeNow]}
         ELSE edgeStored

\* routeResolver.ts:69-113  handler(req) up to its first await after
\* req.json()
Handle(req) ==
    /\ edgeCount < MaxReqs
    /\ edgeCount' = edgeCount + 1
    /\ LET r  == [NewReq(req) EXCEPT !.repeatOf = RepeatOf(req)]
           r2 == IF req.method = "OPTIONS" THEN Answer(r, 204, FALSE, <<>>)
                 ELSE IF req.method # "POST" THEN Answer(r, 405, FALSE, <<>>)
                 ELSE IF req.body.kind = "bad" THEN Answer(r, 400, FALSE, <<>>)
                 ELSE IF req.body.kind = "null" THEN Internal(r)
                 ELSE IF NeedsDb(req.body)
                      THEN [r EXCEPT !.pc = "db", !.calls = @ \cup {"db"}]
                      ELSE AfterStops(r, req.body.stops)
       IN  /\ edgeReqs' = IF r2.pc = "done" THEN edgeReqs
                          ELSE edgeReqs (+) SetToBag({r2})
           /\ edgeLast' = IF r2.pc = "done" THEN <<r2>> ELSE edgeLast
    /\ UNCHANGED <<edgeStored, kvStore, edgeNow, nonEdgeVars>>

\* routeResolver.ts:101-113  the record store answers
DbRespond(r, answer) ==
    /\ r \in BagToSet(edgeReqs)
    /\ r.pc = "db"
    /\ LET r2 == [r EXCEPT !.db = <<answer>>] IN
       Moved(r, IF answer.kind = "throw" THEN Internal(r2)
                ELSE IF answer.kind = "none" THEN Answer(r2, 404, FALSE, <<>>)
                ELSE AfterStops(r2, answer.stops))
    /\ UNCHANGED <<edgeCount, kvStore, edgeNow, nonEdgeVars>>

\* routeResolver.ts:120-134  Deno.openKv() and kv.get([cacheKey]) settle:
\*   "nokv"  openKv rejects: the handler goes on without a cache
\*   "throw" kv.get rejects: the catch-all answers 500
\*   "ok"    kv.get returns what the store holds under the key
\* A miss issues the first geocoding request.
KvLookup(r, outcome) ==
    /\ r \in BagToSet(edgeReqs)
    /\ r.pc = "kv"
    /\ LET key == EdgeCacheKey(r.eff[1])
           due == \E a \in r.repeatOf :
                     a.kv /\ a.eff = r.eff /\ edgeNow < a.at + EXPIRE_IN
       IN  Moved(r,
             IF outcome = "nokv"
             THEN [r EXCEPT !.pc = "geocode", !.calls = @ \cup {"geocode"}]
             ELSE IF outcome = "throw"
             THEN Internal([r EXCEPT !.kv = TRUE, !.calls = @ \cup {"kv.get"}])
             ELSE IF key \in DOMAIN kvStore
             THEN Answer([r EXCEPT !.kv = TRUE, !.calls = @ \cup {"kv.get"},
                                   !.hitDue = due,
                                   !.found = <<kvStore[key].value>>,
                                   !.foundStale =
                                       edgeNow > kvStore[key].value.cachedAt
                                                 + EXPIRE_IN],
                         200, TRUE, <<HitBody(kvStore[key].value)>>)
             ELSE [r EXCEPT !.kv = TRUE, !.pc = "geocode", !.hitDue = due,
                            !.calls = @ \cup {"kv.get", "geocode"}])
    /\ UNCHANGED <<edgeCount, kvStore, edgeNow, nonEdgeVars>>

NotEnoughNone(resolvedStops) == Len(resolvedStops) < 1

\* routeResolver.ts:184  resolvedStops.length < 2
NotEnough(resolvedStops) == Len(resolvedStops) < 2

\* routeResolver.ts:134-191  the geocoding of stop i + 1 settles: one of
\* its query variants found it, none did, or a fetch rejected.  After the
\* last stop the handler answers 422 or issues the routing request.
GeocodeStop(r, outcome) ==
    /\ r \in BagToSet(edgeReqs)
    /\ r.pc = "geocode"
    /\ LET stops    == r.eff[1]
           resolved == IF outcome = "found"
                       THEN Append(r.resolved, stops[r.i + 1]) ELSE r.resolved
       IN  Moved(r,
             IF outcome = "throw" THEN Internal(r)
             ELSE IF r.i + 1 < Len(stops)
             THEN [r EXCEPT !.i = r.i + 1, !.resolved = resolved]
             ELSE IF NotEnough(resolved)
             THEN Answer([r EXCEPT !.i = r.i + 1, !.resolved = resolved],
                         422, FALSE, <<>>)
             ELSE [r EXCEPT !.i = r.i + 1, !.resolved = resolved,
                            !.pc = "route", !.calls = @ \cup {"route"}])
    /\ UNCHANGED <<edgeCount, kvStore, edgeNow, nonEdgeVars>>

\* routeResolver.ts:191-220  the routing provider answers: a route, a body
\* without routes, or a failure.  With a route the response is built
\* (cachedAt is the time of this step) and, when the KV store is open,
\* kv.set is called.
RouteRespond(r, outcome) ==
    /\ r \in BagToSet(edgeReqs)
    /\ r.pc = "route"
    /\ LET response == [busId |-> r.req.body.busId, stops |-> r.resolved,
                        cachedAt |-> edgeNow]
       IN  Moved(r,
             IF outcome = "throw" THEN Internal(r)
             ELSE IF outcome = "noroutes" THEN Answer(r, 502, FALSE, <<>>)
             ELSE IF r.kv
             THEN [r EXCEPT !.pc = "kv.set", !.payload = <<response>>,
                            !.calls = @ \cup {"kv.set"}]
             ELSE Answer(r, 200, FALSE, <<response>>))
    /\ UNCHANGED <<edgeCount, kvStore, edgeNow, nonEdgeVars>>

ExpireAtOnce(t) == t

\* routeResolver.ts:217  { expireIn: 86_400_000 }: when an entry written
\* at t expires
ExpireAt(t) == t + EXPIRE_IN

\* routeResolver.ts:217-225  kv.set settles: the entry is written and the
\* handler answers 200, or kv.set rejects and the catch-all answers 500
KvSetRespond(r, ok) ==
    /\ r \in BagToSet(edgeReqs)
    /\ r.pc = "kv.set"
    /\ IF ok
       THEN /\ kvStore' = MapSet(kvStore, EdgeCacheKey(r.eff[1]),
                                 [value |-> r.payload[1],
                                  expireAt |-> ExpireAt(edgeNow)])
            /\ Moved(r, Answer(r, 200, FALSE, r.payload))
       ELSE /\ kvStore' = kvStore
            /\ Moved(r, Internal(r))
    /\ UNCHANGED <<edgeCount, edgeNow, nonEdgeVars>>

\* Deno KV removes an expired entry: not before its expiry, and some time
\* after it (until then the entry stays visible to kv.get)
KvPurge(key) ==
    /\ key \in DOMAIN kvStore
    /\ edgeNow >= kvStore[key].expireAt
    /\ kvStore' = MapDelete(kvStore, key)
    /\ UNCHANGED <<edgeReqs, edgeCount, edgeLast, edgeStored, edgeNow,
                   nonEdgeVars>>

EdgeTick ==
    /\ edgeNow < MaxEdgeTime
    /\ edgeNow' = edgeNow + 1
    /\ UNCHANGED <<edgeReqs, edgeCount, edgeLast, edgeStored, kvStore,
                   nonEdgeVars>>

EdgeKeys == {EdgeCacheKey(ListAB), EdgeCacheKey(ListBA)}

EdgeNext ==
    \/ \E req \in EdgeRequests : Handle(req)
    \/ \E r \in BagToSet(edgeReqs), answer \in DbAnswers : DbRespond(r, answer)
    \/ \E r \in BagToSet(edgeReqs), outcome \in {"nokv", "throw", "ok"} :
         KvLookup(r, outcome)
    \/ \E r \in BagToSet(edgeReqs), outcome \in {"found", "notfound", "throw"} :
         GeocodeStop(r, outcome)
    \/ \E r \in BagToSet(edgeReqs), outcome \in {"route", "noroutes", "throw"} :
         RouteRespond(r, outcome)
    \/ \E r \in BagToSet(edgeReqs), ok \in BOOLEAN : KvSetRespond(r, ok)
    \/ \E key \in EdgeKeys : KvPurge(key)
    \/ EdgeTick

(***************************************************************************)
(* routeWorker.ts (src/unnamed/part_001:79-219): the worker's message      *)
(* handler.  Coordinates are pairs <<lat, lon>> of whole degrees on the    *)
(* equator, where the bearing formula gives exactly 0, 90 or 270 and the   *)
(* haversine legs are those of GpsDistTable.                               *)
(***************************************************************************)
MaxPoints == 16

MaxMsgs == 2

\* routeWorker.ts:127  Math.max(1, Math.floor(points.length / 8))
MaxArrows == 8

\* routeWorker.ts:127  step
ArrowStep(n) == IF n \div MaxArrows < 1 THEN 1 ELSE n \div MaxArrows

\* routeWorker.ts:134-141  bearing of the leg from p1 to p2, in degrees, for
\* two points of equal latitude 0: atan2(sin(dLon), 0) is 90 or -90 degrees,
\* atan2(0, 0) is 0, and (x + 360) % 360 follows
Bearing(p1, p2) ==
    IF p2[2] > p1[2] THEN 90 ELSE IF p2[2] < p1[2] THEN 270 ELSE 0

\* routeWorker.ts:130-144  the loop from index i on (i counts from 0 as in
\* the source; points[i] there is points[i + 1] here)
RECURSIVE ArrowsFrom(_, _, _, _)
ArrowsFrom(points, i, step, bearings) ==
    IF i >= Len(points) - 1 THEN bearings
    ELSE ArrowsFrom(points, i + step, step,
             Append(bearings, [lat |-> points[i + 1][1],
                               lon |-> points[i + 1][2],
                               bearing |-> Bearing(points[i], points[i + 1])]))

\* routeWorker.ts:125-147  case 'computeArrowBearings': the bearings posted
ComputeArrowBearings(points) ==
    ArrowsFrom(points, ArrowStep(Len(points)), ArrowStep(Len(points)), <<>>)

\* routeWorker.ts:170-179  case 'haversineChain': the total, in millimetres
RECURSIVE HaversineFrom(_, _, _)
HaversineFrom(coords, j, total) ==
    IF j >= Len(coords) THEN total
    ELSE HaversineFrom(coords, j + 1,
             total + GpsDistTable[<<coords[j][1], coords[j][2],
                                    coords[j + 1][1], coords[j + 1][2]>>])

HaversineChain(coords) == HaversineFrom(coords, 1, 0)

\* routeWorker.ts:112-114  geometry.coordinates.map(c => [c[1], c[0]])
FlipGeometry(coordinates) ==
    [i \in 1..Len(coordinates) |-> <<coordinates[i][2], coordinates[i][1]>>]

\* routeWorker.ts:118  totalDistance / 1000 (undefined / 1000 is NaN; the
\* distances of the model are whole kilometres)
WorkerDistanceKm(totalDistance) ==
    IF totalDistance = <<>> THEN NaNVal ELSE Num(totalDistance[1] \div 1000)

\* a polyline of n points running east along the equator
EastLine(n) == [i \in 1..n |-> <<0, i>>]

LinePoints == {<<0, 0>>, <<0, 5>>}

\* the messages the page posts: the four documented requests with payloads
\* of the documented shape, and two of no recognized type
WorkerRequests ==
    {[type |-> "parseGeometry", geometry |-> g, totalDistance |-> t] :
        g \in {<<>>, << <<12, 24>>, <<50, 60>> >>}, t \in {<<>>, <<5000>>}}
    \cup {[type |-> "computeArrowBearings", points |-> EastLine(n)] :
            n \in 0..MaxPoints}
    \cup {[type |-> "computeArrowBearings", points |-> p] :
            p \in [1..3 -> LinePoints]}
    \cup {[type |-> "haversineChain", coords |-> c] :
            c \in SeqsUpTo(LinePoints, 2)}
    \cup {[type |-> "filterNoisyGps", rawPoints |-> r, minDistMeters |-> m] :
            r \in {<<>>, <<Point(0, 0), Point(0, 5), Point(0, 100)>>},
            m \in {<<>>, <<0>>}}
    \cup {[type |-> "ping"], [type |-> ""]}

ReplyAlways(data) == <<[type |-> "unknown"]>>

\* routeWorker.ts:97-218  self.onmessage(e) with e.data = data: the
\* messages it posts, in order
Reply(data) ==
    CASE data.type = "parseGeometry" ->
           <<[type |-> "geometryParsed",
              points |-> FlipGeometry(data.geometry),
              distanceKm |-> WorkerDistanceKm(data.totalDistance)]>>
      [] data.type = "computeArrowBearings" ->
           <<[type |-> "arrowBearings",
              bearings |-> ComputeArrowBearings(data.points)]>>
      [] data.type = "haversineChain" ->
           <<[type |-> "haversineTotal",
              totalKm |-> HaversineChain(data.coords)]>>
      [] data.type = "filterNoisyGps" ->
           <<[type |-> "filteredGps",
              points |-> FilterNoisyGps(data.rawPoints, data.minDistMeters)]>>
      [] OTHER -> <<>>

WkInit ==
    /\ wkPosted = <<>>
    /\ wkDone = 0
    /\ wkOut = <<>>

\* the page: worker.postMessage(data)
PostMessage(data) ==
    /\ Len(wkPosted) < MaxMsgs
    /\ wkPosted' = Append(wkPosted, data)
    /\ UNCHANGED <<wkDone, wkOut, nonWkVars>>

\* the worker's event loop dispatches the oldest message not yet handled to
\* self.onmessage, which runs to its end
OnMessage ==
    /\ wkDone < Len(wkPosted)
    /\ wkDone' = wkDone + 1
    /\ LET posted == Reply(wkPosted[wkDone + 1]) IN
         wkOut' = wkOut \o [k \in 1..Len(posted) |->
                               [of |-> wkDone + 1, msg |-> posted[k]]]
    /\ UNCHANGED <<wkPosted, nonWkVars>>

WorkerNext ==
    \/ \E data \in WorkerRequests : PostMessage(data)
    \/ OnMessage

(***************************************************************************)
(* routeResolver.ts (src/unnamed/part_002:128-220): steps 3 and 4 of one   *)
(* handler that missed the cache, query variant by query variant and with  *)
(* the clock: the geocoding loop, its sleeps, the anchor and the routing   *)
(* request.  Times are in milliseconds.                                    *)
(***************************************************************************)
MaxLoopStops == 3

MaxLoopTicks == 10

\* routeResolver.ts:65
RATE_LIMIT_MS == 250

\* the clock advances by half the rate limit
LoopTick == RATE_LIMIT_MS \div 2

\* routeResolver.ts:140-145  queries
NVariants == 4

LoopNames == <<NameA, NameB, <<"c">>, <<"d">>, <<"e">> >>

\* the effective stop lists of the requests
LoopLists == {SubSeq(LoopNames, 1, n) : n \in 2..MaxLoopStops}

\* What a geocoding request ends with:
\*   "reject"      fetch rejects (network failure)
\*   "unparseable" resp.json() rejects: its catch gives []
\*   "null"        the body is the JSON value null (results.length throws)
\*   "array"       the body is an array of well-formed candidates
LoopResp ==
    [kind : {"reject", "unparseable", "null"}, cands : {<<>>}]
      \cup [kind : {"array"},
            cands : {<<>>, <<PlaceNear>>, <<PlaceFar>>, <<PlaceWest, PlaceFar>>}]

IdleLoop ==
    [pc |-> "idle", stops |-> <<>>, i |-> 0, q |-> 0, wake |-> 0,
     resolvedStops |-> <<>>, anchor |-> Null, status |-> 0, cause |-> "",
     payload |-> <<>>, routes |-> 0, geocoded |-> 0, tried |-> 0,
     lastAt |-> <<>>, gap |-> <<>>, rankedBy |-> <<>>]

LoopInit ==
    /\ loop = IdleLoop
    /\ loopNow = 0

\* routeResolver.ts:222-225  the catch-all answers 500
LoopInternal(l, cause) == [l EXCEPT !.pc = "done", !.status = 500, !.cause = cause]

\* routeResolver.ts:147-150  await fetch(url, ...) for query variant q of
\* the stop l.i: the request goes out now (gap: the time since the previous
\* geocoding request of this handler)
IssueFetch(l, q) ==
    [l EXCEPT !.pc = "fetch", !.q = q, !.lastAt = <<loopNow>>,
              !.gap = IF l.lastAt = <<>> THEN <<>> ELSE <<loopNow - l.lastAt[1]>>]

\* routeResolver.ts:155-163  best: results[0], or with an anchor and more
\* than one result the reduce with <= over haversine, as in geocodeStop
EdgeBest(anchor, results) ==
    IF anchor # Null /\ Len(results) > 1
    THEN Reduce(anchor[1], results[1], Tail(results))
    ELSE results[1]

\* routeResolver.ts:165-168  the entry pushed to resolvedStops
ResolvedStop(rawName, best) ==
    [name |-> rawName, lat |-> best.lat, lon |-> best.lon,
     corrected |-> IF best.name # "" THEN best.name
                   ELSE FirstPart(best.display_name)]

AnchorKeptFirst(anchor, lat, lon) ==
    IF anchor = Null THEN Some(Point(lat, lon)) ELSE anchor

\* routeResolver.ts:171-172  anchorLat = lat; anchorLon = lon
AnchorAfter(anchor, lat, lon) == Some(Point(lat, lon))

\* routeResolver.ts:134-135, 177-191  the iteration for stop l.i has ended:
\* the next one starts with the sleep, and after the last one the handler
\* answers 422 or issues the routing request
NextStop(l) ==
    LET g == [l EXCEPT !.geocoded = @ + 1] IN
    IF l.i + 1 < Len(l.stops)
    THEN [g EXCEPT !.i = l.i + 1, !.pc = "sleep", !.q = 0,
                   !.wake = loopNow + RATE_LIMIT_MS]
    ELSE IF NotEnough(l.resolvedStops)
    THEN [g EXCEPT !.i = l.i + 1, !.pc = "done", !.status = 422]
    ELSE [g EXCEPT !.i = l.i + 1, !.pc = "route", !.routes = @ + 1]

\* routeResolver.ts:128-150  the loop is entered: no sleep before the first
\* stop, whose first query variant is requested
LoopStart(stops) ==
    /\ loop.pc = "idle"
    /\ loop' = IssueFetch([loop EXCEPT !.stops = stops], 1)
    /\ UNCHANGED <<loopNow, nonLoopVars>>

\* routeResolver.ts:135, 247  the timer of sleep(RATE_LIMIT_MS) fires, not
\* before its delay has passed, and the first query variant is requested
LoopWake ==
    /\ loop.pc = "sleep"
    /\ loopNow >= loop.wake
    /\ loop' = IssueFetch(loop, 1)
    /\ UNCHANGED <<loopNow, nonLoopVars>>

\* routeResolver.ts:150-175  the geocoding request in flight ends, some time
\* after it went out
LoopFetched(resp) ==
    /\ loop.pc = "fetch"
    /\ loopNow > loop.lastAt[1]
    /\ LET l == [loop EXCEPT !.tried = @ + 1] IN
       loop' =
         CASE resp.kind = "reject" -> LoopInternal(l, "fetch")
           [] resp.kind = "null" -> LoopInternal(l, "body")
           [] resp.kind \in {"unparseable", "array"} /\ resp.cands = <<>> ->
                \* if (!results.length) continue;
                IF l.q < NVariants THEN IssueFetch(l, l.q + 1)
                ELSE NextStop(l)
           [] OTHER ->
                LET best == EdgeBest(l.anchor, resp.cands)
                    stop == ResolvedStop(l.stops[l.i + 1], best)
                IN  NextStop([l EXCEPT
                       !.resolvedStops = Append(@, stop),
                       !.anchor = AnchorAfter(l.anchor, stop.lat, stop.lon),
                       !.rankedBy = IF l.anchor # Null /\ Len(resp.cands) > 1
                                    THEN l.anchor ELSE @])
    /\ UNCHANGED <<loopNow, nonLoopVars>>

\* routeResolver.ts:191-220  the routing request ends: a route (200 with
\* the resolved stops), a body without routes (502), or a failure (500)
LoopRouted(outcome) ==
    /\ loop.pc = "route"
    /\ loop' =
         IF outcome = "throw" THEN LoopInternal(loop, "route")
         ELSE IF outcome = "noroutes"
         THEN [loop EXCEPT !.pc = "done", !.status = 502]
         ELSE [loop EXCEPT !.pc = "done", !.status = 200,
                           !.payload = <<loop.resolvedStops>>]
    /\ UNCHANGED <<loopNow, nonLoopVars>>

LoopTime ==
    /\ loopNow + LoopTick <= MaxLoopTicks * LoopTick
    /\ loopNow' = loopNow + LoopTick
    /\ UNCHANGED <<loop, nonLoopVars>>

LoopNext ==
    \/ \E stops \in LoopLists : LoopStart(stops)
    \/ LoopWake
    \/ \E resp \in LoopResp : LoopFetched(resp)
    \/ \E outcome \in {"route", "noroutes", "throw"} : LoopRouted(outcome)
    \/ LoopTime

(***************************************************************************)
(* routeResolver.ts (src/unnamed/part_002:116-126): the cache key as a     *)
(* function of the stop list, and the lookup of one list after a result    *)
(* was stored for another.                                                 *)
(***************************************************************************)
MaxEdgeKeyStops == 2

\* a name of n letters x
LongName(n) == [i \in 1..n |-> "x"]

\* the stop names drawn: 'a', 'b', 'A', 'a b', 'a_b', 'a|b', and two names
\* of KEY_SLICE letters and more
EdgeKeyNames ==
    {NameA, NameB, <<"A">>, <<"a", " ", "b">>, <<"a", "_", "b">>,
     <<"a", "|", "b">>}

EdgeKeyLists ==
    {s \in SeqsUpTo(EdgeKeyNames, MaxEdgeKeyStops) : Len(s) >= 2}
      \cup {<<NameA, NameB, NameA>>,
            <<LongName(KEY_SLICE), NameA>>, <<LongName(KEY_SLICE), NameB>>}

EdgeKeyIdle ==
    /\ ekIn = [first |-> <<>>, second |-> <<>>]
    /\ ekOut = <<>>

EdgeKeyInputs ==
    /\ ekIn \in [first : EdgeKeyLists, second : EdgeKeyLists]
    /\ ekOut = <<>>

\* routeResolver.ts:116-126, 217  the keys of the two lists, and what the
\* lookup for the second list finds in a store that holds only the entry
\* written for the first (the stops of the stored value)
EdgeKeysOf ==
    /\ ekOut = <<>>
    /\ LET k1    == EdgeCacheKey(ekIn.first)
           k2    == EdgeCacheKey(ekIn.second)
           store == MapSet(<<>>, k1, [stops |-> ekIn.first])
       IN  ekOut' = <<[k1 |-> k1, k2 |-> k2,
                       found |-> IF k2 \in DOMAIN store
                                 THEN <<store[k2].stops>> ELSE <<>>]>>
    /\ UNCHANGED <<ekIn, nonEkVars>>

EdgeKeyNext == EdgeKeysOf

(***************************************************************************)
(* Initial states and specifications.                                      *)
(***************************************************************************)
Init ==
    GeoInit /\ SelIdle /\ GpsIdle /\ AnimInit /\ RcInit /\ EdgeInit /\ KeyIdle /\ WkInit /\ LoopInit /\ EdgeKeyIdle

SpecGeo == Init /\ [][GeoNext]_vars

SpecSeq == Init /\ [][SeqNext]_vars

SelNext == Select

InitSelect ==
    GeoInit /\ SelInit /\ GpsIdle /\ AnimInit /\ RcInit /\ EdgeInit /\ KeyIdle /\ WkInit /\ LoopInit /\ EdgeKeyIdle

SpecSelect == InitSelect /\ [][SelNext]_vars

InitGps ==
    GeoInit /\ SelIdle /\ GpsInputs /\ AnimInit /\ RcInit /\ EdgeInit /\ KeyIdle /\ WkInit /\ LoopInit /\ EdgeKeyIdle

SpecGps == InitGps /\ [][GpsNext]_vars

SpecAnim == Init /\ [][AnimNext]_vars

\* the animations under fair frame delivery: while a frame callback is
\* pending the browser keeps delivering display frames, and each frame
\* comes with a later timestamp
SpecAnimFair == Init /\ [][AnimFairNext]_vars /\ WF_vars(FrameAny)

\* RouteCache.get and set, the reload of the page and foreign writes
SpecRoute == Init /\ [][RouteNext]_vars

\* RouteCache.prewarm calls, overlapping or not, and the reload of the page
SpecPrewarm == Init /\ [][PrewarmNext]_vars

\* the edge function under any requests, clients overlapping or not
SpecEdge == Init /\ [][EdgeNext]_vars

InitKey ==
    GeoInit /\ SelIdle /\ GpsIdle /\ AnimInit /\ RcInit /\ EdgeInit /\ KeyInputs /\ WkInit /\ LoopInit /\ EdgeKeyIdle

\* makeKey on every pair of sequences drawn
SpecKey == InitKey /\ [][KeyNext]_vars

\* the worker under any messages of the page
SpecWorker == Init /\ [][WorkerNext]_vars

\* one handler of the edge function from its cache miss on
SpecLoop == Init /\ [][LoopNext]_vars

InitEdgeKey ==
    GeoInit /\ SelIdle /\ GpsIdle /\ AnimInit /\ RcInit /\ EdgeInit /\ KeyIdle /\ WkInit /\ LoopInit /\ EdgeKeyInputs

\* the cache key of the edge function on every pair of stop lists drawn
SpecEdgeKey == InitEdgeKey /\ [][EdgeKeyNext]_vars

(***************************************************************************)
(* Claims about GeocodeResolver.                                           *)
(***************************************************************************)

\* C1: once a geocodeStop call for a key has completed, every call started
\* later for a name with the same key returns the value that call returned
\* and issues no provider request.  (exp is the value the first completed
\* call for the key had returned when the call started.)
C1_CacheFirst ==
    (geoLast.pc = "done" /\ geoLast.exp # <<>>)
        => (geoLast.ret = geoLast.exp[1] /\ geoLast.reqs = 0)

\* C7: with an anchor and more than one candidate the selected candidate is
\* the earliest one at minimal great-circle distance from the anchor;
\* without an anchor, or with one candidate, it is the provider's first.
\* (Candidates are well-formed, as the provider's interface states.)
SelDist(c) ==
    haversine(selIn.anchor[1].lat, selIn.anchor[1].lon, c.lat, c.lon)

C7_AnchorHeuristic ==
    selOut # <<>> =>
        LET res == selIn.results IN
        IF selIn.anchor # Null /\ Len(res) > 1
        THEN \E i \in 1..Len(res) :
               /\ selOut[1] = res[i]
               /\ \A j \in 1..Len(res) : SelDist(res[i]) <= SelDist(res[j])
               /\ \A j \in 1..(i - 1) : SelDist(res[j]) > SelDist(res[i])
        ELSE selOut[1] = res[1]

\* the spec's example: anchor (13.0, 80.0), candidates (13.5, 80.5) and
\* (13.05, 80.02): the second is selected
C7_Witness ==
    /\ selIn = [anchor |-> Some(AnchorPoint), results |-> <<PlaceFar, PlaceNear>>]
    /\ selOut = <<PlaceNear>>

\* C8: geocodeStopSequence returns one result per name, in input order, and
\* the anchor passed to geocodeStop is absent up to and including the first
\* resolved stop's own call, and that stop's result for every later call.
FirstResolved(results, j) ==
    LET hits == {k \in 1..(j - 1) : results[k] # Null} IN
    IF hits = {} THEN Null
    ELSE results[CHOOSE k \in hits : \A h \in hits : k <= h]

SeqSoFar == IF seq.pc = "resume" /\ seq.got[1] = "done"
            THEN Append(seq.results, seq.got[2])
            ELSE seq.results

C8_SequenceAnchor ==
    /\ \A j \in 1..Len(seq.passed) :
         /\ Len(SeqSoFar) >= j - 1
         /\ seq.passed[j] = FirstResolved(SeqSoFar, j)
    /\ seq.pc = "done" =>
         /\ Len(seq.results) = Len(seq.names)
         /\ Len(seq.passed) = Len(seq.names)
         /\ \A j \in 1..Len(seq.names) :
              seq.results[j] = _cache[CacheKey(seq.names[j])]

C8_Witness ==
    /\ seq.pc = "done"
    /\ Len(seq.names) = 3
    /\ seq.results[1] # Null
    /\ seq.results[2] # Null
    /\ seq.results[2] # seq.results[1]
    /\ seq.passed = <<Null, seq.results[1], seq.results[1]>>

(***************************************************************************)
(* Claims about GeometryWorker.                                            *)
(***************************************************************************)

\* the fixes of rawPoints at the indices in K, in order
RECURSIVE Pick(_, _, _)
Pick(rawPoints, K, k) ==
    IF k > Len(rawPoints) THEN <<>>
    ELSE IF k \in K THEN <<rawPoints[k]>> \o Pick(rawPoints, K, k + 1)
         ELSE Pick(rawPoints, K, k + 1)

LastKeptBefore(K, k) == CHOOSE j \in K : j < k /\ \A h \in K : h < k => h <= j

\* C9: the output of filterNoisyGps is the subsequence of the input at an
\* index set K that holds the first index and holds a later index exactly
\* when its fix is at least the threshold (20 m by default) from the fix at
\* the last index of K before it; so consecutive output fixes are at least
\* the threshold apart.
C9_GreedyFilter ==
    gpsOut # <<>> =>
        LET raw == gpsIn.rawPoints
            thr == (IF gpsIn.minDistMeters = <<>> THEN 20
                    ELSE gpsIn.minDistMeters[1]) * 1000
            out == gpsOut[1]
        IN  /\ raw = <<>> => out = <<>>
            /\ raw # <<>> =>
                 /\ out[1] = raw[1]
                 /\ \E K \in SUBSET (1..Len(raw)) :
                      /\ 1 \in K
                      /\ \A k \in 2..Len(raw) :
                           k \in K <=>
                             GpsDist(raw[LastKeptBefore(K, k)], raw[k]) >= thr
                      /\ out = Pick(raw, K, 1)
            /\ \A i \in 1..(Len(out) - 1) : GpsDist(out[i], out[i + 1]) >= thr

\* the spec's example: [(0,0), (0,0.00005), (0,0.001)] with the 20 m default
C9_Witness ==
    /\ gpsIn = [rawPoints |-> <<Point(0, 0), Point(0, 5), Point(0, 100)>>,
                minDistMeters |-> <<>>]
    /\ gpsOut = << <<Point(0, 0), Point(0, 100)>> >>

(***************************************************************************)
(* Claims about MotionInterpolator.                                        *)
(***************************************************************************)

\* C10: when animateMarkerTo is called on a track whose animation is still
\* in flight, the superseded animation writes no further position, and
\* once no frame callback is pending the marker rests at the second call's
\* target (no other track having moved the marker, the track not having
\* been canceled since).
C10_Supersede ==
    /\ ~animHist.stale
    /\ \A id \in Tracks :
         (/\ animHist.last[id] # <<>>
          /\ animHist.last[id][1].superseding
          /\ animHist.touched = {id}
          /\ DOMAIN raf = {})
            => marker = animHist.last[id][1].to

\* the second call started from a blend of the origin and the first target
C10_Witness ==
    \E id \in Tracks :
        /\ animHist.last[id] # <<>>
        /\ animHist.last[id][1].superseding
        /\ animHist.touched = {id}
        /\ DOMAIN raf = {}
        /\ animHist.last[id][1].prevTo # animHist.last[id][1].to
        /\ animHist.last[id][1].from \notin {Origin, animHist.last[id][1].prevTo}
        /\ marker = animHist.last[id][1].to


(***************************************************************************)
(* Claims about RouteCache.                                                *)
(***************************************************************************)

\* C2: a get that directly follows set(stops, data, profile) with the same
\* stops and profile returns the points and the distanceKm that were
\* stored, and a get for a key never written to either tier returns absent.
C2_RoundTrip ==
    rcGot # <<>> =>
        /\ rcGot[1].exp # <<>> =>
             /\ rcGot[1].ret # Null
             /\ rcGot[1].ret[1].points = rcGot[1].exp[1].points
             /\ rcGot[1].ret[1].distanceKm = rcGot[1].exp[1].distanceKm
        /\ rcGot[1].fresh => rcGot[1].ret = Null

\* a get directly after a set whose write to tier 2 failed
C2_Witness ==
    /\ rcGot # <<>>
    /\ rcGot[1].exp # <<>>
    /\ rcGot[1].ret = rcGot[1].exp
    /\ \E a \in RcArgs : makeKey(a[1], a[2]) \in DOMAIN _mem \ DOMAIN sessionStorage

\* C3: of two prewarm calls of one page load with identical stops and
\* profile at most one issues a routing request, whatever the first one's
\* outcome and however the two overlap.
C3_PrewarmOnce ==
    \A i, j \in 1..Len(prewarms) :
        (/\ i < j
         /\ prewarms[i].stops = prewarms[j].stops
         /\ prewarms[i].profile = prewarms[j].profile)
            => ~(prewarms[i].fetched /\ prewarms[j].fetched)

(***************************************************************************)
(* Claims about EdgeRouteResolver.                                         *)
(***************************************************************************)

\* the outside calls a handler makes from the cache lookup on
EdgeLaterCalls == {"openKv", "kv.get", "geocode", "route", "kv.set"}

C5_TooFewStops ==
    /\ \A r \in BagToSet(edgeReqs) : r.eff # <<>> => Len(r.eff[1]) >= 2
    /\ (edgeLast # <<>> /\ edgeLast[1].eff # <<>> /\ Len(edgeLast[1].eff[1]) < 2)
           => (/\ edgeLast[1].status = 400
               /\ edgeLast[1].calls \cap EdgeLaterCalls = {})

\* a one-stop list read from the record store is answered 400
C5_Witness ==
    /\ edgeLast # <<>>
    /\ edgeLast[1].eff = <<ListA>>
    /\ edgeLast[1].calls = {"db"}
    /\ edgeLast[1].status = 400

\* C6: a request whose lookup finds an entry with cachedAt more than 24
\* hours ago is not answered 200 with fromCache = true.
C6_AbsoluteTtl ==
    (edgeLast # <<>> /\ edgeLast[1].foundStale)
        => ~(edgeLast[1].status = 200 /\ edgeLast[1].fromCache)

\* the frame callbacks pending for a track
PendingOf(id) == {h \in DOMAIN raf : raf[h].id = id}

\* C11: each track has at most one animation with a pending frame
\* callback, and it is the one _animations holds for the track.
C11_OneActivePerTrack ==
    \A id \in Tracks :
        /\ Cardinality(PendingOf(id)) <= 1
        /\ PendingOf(id) # {} =>
             (id \in DOMAIN _animations /\ PendingOf(id) = {_animations[id]})

\* a track whose animation was superseded while in flight and whose new
\* animation has run a frame and is pending again
C11_Witness ==
    \E id \in Tracks :
        /\ animHist.last[id] # <<>>
        /\ animHist.last[id][1].superseding
        /\ Cardinality(PendingOf(id)) = 1
        /\ marker # Origin

(***************************************************************************)
(* More claims about RouteCache.                                           *)
(***************************************************************************)

\* C12: a get for a key tier 1 holds returns the tier-1 entry without
\* reading tier 2; a get for a key only tier 2 holds, readable and
\* parseable, returns the parsed entry and leaves it in tier 1; and the get
\* that directly follows a get served from tier 2 for the same key is
\* served from tier 1 with the same entry.
C12_TierOrder ==
    rcGot # <<>> =>
        LET g == rcGot[1] IN
        /\ g.had1 # <<>> => (g.ret = g.had1 /\ g.tier = 1 /\ ~g.read2)
        /\ (g.had1 = <<>> /\ g.readOk /\ g.had2 # <<>>
              /\ JsonParse(g.had2[1]) # <<>>)
             => (/\ g.ret = JsonParse(g.had2[1])
                 /\ g.tier = 2
                 /\ Held(_mem, g.key) = g.ret)
        /\ (g.prev # <<>> /\ g.prev[1].key = g.key /\ g.prev[1].tier = 2)
             => (g.tier = 1 /\ g.ret = g.prev[1].ret)

\* a get served from tier 1 directly after a get of the key that tier 2
\* served
C12_Witness ==
    /\ rcGot # <<>>
    /\ rcGot[1].prev # <<>>
    /\ rcGot[1].prev[1].key = rcGot[1].key
    /\ rcGot[1].prev[1].tier = 2
    /\ rcGot[1].tier = 1

\* C13: a set whose tier-2 write fails does not throw and stores the entry
\* in tier 1, and a get that directly follows it for the same stops and
\* profile returns the data just set.
C13_QuotaTolerated ==
    /\ (rcSet # <<>> /\ ~rcSet[1].quotaOk) =>
           /\ ~rcSet[1].threw
           /\ Held(_mem, makeKey(rcSet[1].stops, rcSet[1].profile))
                  = <<rcSet[1].data>>
    /\ (rcGot # <<>> /\ rcGot[1].exp # <<>> /\ ~rcGot[1].quotaOk) =>
           (rcGot[1].ret = rcGot[1].exp /\ ~rcGot[1].threw)

\* a get that returns the data of a set whose tier-2 write failed, for a
\* key tier 2 holds nothing readable of
C13_Witness ==
    /\ rcGot # <<>>
    /\ rcGot[1].exp # <<>>
    /\ ~rcGot[1].quotaOk
    /\ rcGot[1].ret = rcGot[1].exp
    /\ rcGot[1].had2 \in {<<>>, <<Garbage>>}

\* C14: a get that misses tier 1 and finds tier 2 unreadable or holding an
\* entry that does not parse returns absent, does not throw and leaves
\* tier 1 without an entry for the key.
C14_CorruptTolerated ==
    rcGot # <<>> =>
        LET g == rcGot[1] IN
        (/\ g.had1 = <<>>
         /\ \/ ~g.readOk
            \/ g.had2 # <<>> /\ JsonParse(g.had2[1]) = <<>>)
            => (g.ret = Null /\ ~g.threw /\ g.key \notin DOMAIN _mem)

\* a get that found an unparseable tier-2 entry
C14_Witness ==
    /\ rcGot # <<>>
    /\ rcGot[1].had1 = <<>>
    /\ rcGot[1].readOk
    /\ rcGot[1].had2 = <<Garbage>>
    /\ rcGot[1].ret = Null

Abs(x) == IF x < 0 THEN -x ELSE x

\* every coordinate of b is less than 1e-5 degree from that of a
WithinPrecision(a, b) ==
    /\ Len(a) = Len(b)
    /\ \A i \in 1..Len(a) :
         Abs(a[i].lat - b[i].lat) < 10 /\ Abs(a[i].lon - b[i].lon) < 10

\* x and y have the same sign and lie less than 5e-6 degree from the same
\* multiple of 1e-5 degree
SameCell(x, y) ==
    /\ (x < 0) = (y < 0)
    /\ \E m \in -3..3 : Abs(x - 10 * m) < 5 /\ Abs(y - 10 * m) < 5

\* C15, as stated: sequences whose coordinates differ by less than 1e-5
\* degree get the same key, and get for the one hits the entry set for the
\* other.
C15_JitterCollides ==
    (keyOut # <<>> /\ WithinPrecision(keyIn.stops, keyIn.jittered))
        => (keyOut[1].k1 = keyOut[1].k2 /\ keyOut[1].ret = <<keyOut[1].data>>)

\* C15, amended: sequences whose corresponding coordinates have the same
\* sign and lie less than 5e-6 degree from the same multiple of 1e-5 degree
\* get the same key, and get for the one hits the entry set for the other.
C15_SameCellCollides ==
    (/\ keyOut # <<>>
     /\ \A i \in 1..Len(keyIn.stops) :
          /\ SameCell(keyIn.stops[i].lat, keyIn.jittered[i].lat)
          /\ SameCell(keyIn.stops[i].lon, keyIn.jittered[i].lon))
        => (keyOut[1].k1 = keyOut[1].k2 /\ keyOut[1].ret = <<keyOut[1].data>>)

\* two different sequences with one key
C15_Witness ==
    /\ keyOut # <<>>
    /\ keyIn.stops # <<>>
    /\ keyIn.stops[1].lat # keyIn.jittered[1].lat
    /\ keyIn.stops[1].lon # keyIn.jittered[1].lon
    /\ SameCell(keyIn.stops[1].lat, keyIn.jittered[1].lat)
    /\ SameCell(keyIn.stops[1].lon, keyIn.jittered[1].lon)
    /\ keyOut[1].k1 = keyOut[1].k2
    /\ keyOut[1].ret = <<keyOut[1].data>>

(***************************************************************************)
(* More claims about GeocodeResolver.                                      *)
(***************************************************************************)

\* C16: geocodeStop never throws or rejects, whatever the provider does on
\* each query variant, and it returns absent without a cache hit only
\* after all its query variants were tried.
C16_NeverThrows ==
    /\ geoLast.pc # "threw"
    /\ (geoLast.pc = "done" /\ geoLast.ret = Null /\ geoLast.exp = <<>>)
           => geoLast.reqs = NQueries

(***************************************************************************)
(* More claims about EdgeRouteResolver.                                    *)
(***************************************************************************)

\* the requests being handled and the one answered last
EdgeSeen ==
    BagToSet(edgeReqs) \cup (IF edgeLast = <<>> THEN {} ELSE {edgeLast[1]})

\* the POST requests whose body was parsed to an object
EdgePosts ==
    {r \in EdgeSeen : r.req.method = "POST" /\ r.req.body.kind = "json"}

\* C17: a request with a non-empty stops list uses that list and makes no
\* record-store lookup, whatever its busId; a request without stops and
\* with a busId looks the list up in the record store and uses the list of
\* the row; and when the store has no row the request is answered 404
\* without a cache, geocoding or routing call.
C17_ResolutionOrder ==
    \A r \in EdgePosts :
        /\ r.req.body.stops # <<>> =>
             (/\ "db" \notin r.calls
              /\ r.db = <<>>
              /\ r.eff = <<r.req.body.stops>>)
        /\ (r.req.body.stops = <<>> /\ r.req.body.busId # <<>>) =>
             /\ "db" \in r.calls
             /\ (r.db # <<>> /\ r.db[1].kind = "rows")
                    => r.eff = <<r.db[1].stops>>
             /\ (r.db # <<>> /\ r.db[1].kind = "none")
                    => (/\ r.pc = "done"
                        /\ r.status = 404
                        /\ r.calls \cap EdgeLaterCalls = {})
        /\ r.status = 404 => (r.db # <<>> /\ r.db[1].kind = "none")

\* a request with stops and a busId that was resolved from its own stops
C17_Witness ==
    /\ edgeLast # <<>>
    /\ edgeLast[1].req.body = Body(ListAB, <<"7">>)
    /\ edgeLast[1].status = 200
    /\ ~edgeLast[1].fromCache
    /\ edgeLast[1].payload[1].stops = ListAB

\* C18: nothing is requested from the geocoding or the routing provider
\* before the cache lookup of a request has settled, and a request whose
\* lookup hits is answered 200 with fromCache = true and the stored value
\* unchanged, without a geocoding request, a routing request or a cache
\* write.
C18_HitShortCircuits ==
    \A r \in EdgeSeen :
        /\ r.pc = "kv" => r.calls \cap {"geocode", "route", "kv.set"} = {}
        /\ r.found # <<>> =>
             /\ r.pc = "done"
             /\ r.status = 200
             /\ r.fromCache
             /\ r.payload = r.found
             /\ r.calls \cap {"geocode", "route", "kv.set"} = {}
        /\ r.fromCache => r.found # <<>>

\* a hit served some time after the entry was stored
C18_Witness ==
    /\ edgeLast # <<>>
    /\ edgeLast[1].found # <<>>
    /\ edgeLast[1].fromCache
    /\ edgeLast[1].payload[1].cachedAt < edgeNow
    /\ edgeLast[1].payload[1].stops = ListBA

EdgeStatuses == {200, 204, 400, 404, 405, 422, 502, 500}

\* C19: every response has one of the statuses 200, 204, 400, 404, 405,
\* 422, 502, 500; a request in which something threw into the catch-all is
\* answered 500 and is handled no further.
C19_AlwaysAnswers ==
    /\ \A r \in BagToSet(edgeReqs) : r.pc # "done" /\ ~r.threw
    /\ edgeLast # <<>> =>
         /\ edgeLast[1].pc = "done"
         /\ edgeLast[1].status \in EdgeStatuses
         /\ edgeLast[1].threw => edgeLast[1].status = 500

\* a request answered 500 after a provider call threw
C19_Witness ==
    /\ edgeLast # <<>>
    /\ edgeLast[1].threw
    /\ edgeLast[1].status = 500
    /\ "geocode" \in edgeLast[1].calls

\* C20: of the requests for one stop list that are being handled with the
\* KV store open, at most one has issued geocoding requests.
C20_ResolveOnce ==
    \A r1, r2 \in BagToSet(edgeReqs) :
        (/\ r1.kv /\ r2.kv
         /\ "geocode" \in r1.calls /\ "geocode" \in r2.calls
         /\ r1.eff = r2.eff)
            => (r1 = r2 /\ CopiesIn(r1, edgeReqs) = 1)

(***************************************************************************)
(* Claims about RouteCache.prewarm as warmRouteCache calls it.             *)
(***************************************************************************)

\* C21: no prewarm call leaves its caller with a rejected promise, and the
\* step in which a call gets a failure or a body without routes from the
\* routing provider changes neither cache tier.
C21_PrewarmSilent ==
    [][/\ \A i \in 1..Len(prewarms') : prewarms'[i].outer # "threw"
       /\ \A i \in 1..Len(prewarms) :
            (/\ i <= Len(prewarms')
             /\ prewarms[i].pc = "fetch"
             /\ prewarms'[i].resp \in {"throw", "noroute"})
                => (/\ prewarms'[i].outer = "done"
                    /\ _mem' = _mem
                    /\ sessionStorage' = sessionStorage)]_vars

\* a call whose own promise rejected while another entry was in the cache
C21_Witness ==
    \E i \in 1..Len(prewarms) :
        /\ prewarms[i].resp = "throw"
        /\ prewarms[i].pc = "threw"
        /\ prewarms[i].outer = "done"
        /\ _mem # <<>>

(***************************************************************************)
(* Claims about the route worker.                                          *)
(***************************************************************************)

\* C22: for a computeArrowBearings request with any number of points, the
\* bearings posted number at most 8.
C22_AtMostEight ==
    \A k \in 1..Len(wkOut) :
        wkOut[k].msg.type = "arrowBearings"
            => Len(wkOut[k].msg.bearings) <= MaxArrows

\* routeWorker.ts:110-214  the response type each recognized request type
\* is answered with
ResponseType ==
    [parseGeometry |-> "geometryParsed",
     computeArrowBearings |-> "arrowBearings",
     haversineChain |-> "haversineTotal",
     filterNoisyGps |-> "filteredGps"]

Recognized(type) ==
    type \in {"parseGeometry", "computeArrowBearings", "haversineChain",
              "filterNoisyGps"}

\* the responses to the k-th message posted
ResponsesTo(k) == {j \in 1..Len(wkOut) : wkOut[j].of = k}

\* C23: every handled request of a recognized type has exactly one response,
\* of the matching type; equal requests have equal responses whatever was
\* handled before them; the responses are in the order of their requests;
\* a request of another type has no response.
C23_WorkerProtocol ==
    /\ \A j \in 1..Len(wkOut) : wkOut[j].of \in 1..wkDone
    /\ \A j, k \in 1..Len(wkOut) : j < k => wkOut[j].of < wkOut[k].of
    /\ \A k \in 1..wkDone :
         IF Recognized(wkPosted[k].type)
         THEN /\ Cardinality(ResponsesTo(k)) = 1
              /\ \A j \in ResponsesTo(k) :
                   wkOut[j].msg.type = ResponseType[wkPosted[k].type]
         ELSE ResponsesTo(k) = {}
    /\ \A j, k \in 1..Len(wkOut) :
         wkPosted[wkOut[j].of] = wkPosted[wkOut[k].of]
             => wkOut[j].msg = wkOut[k].msg

\* an unrecognized message followed by a recognized one, both handled, and
\* the same request handled twice
C23_Witness ==
    /\ wkDone = 2
    /\ \/ /\ wkPosted[1].type = "ping"
          /\ wkPosted[2].type = "haversineChain"
          /\ Len(wkPosted[2].coords) = 2
          /\ Len(wkOut) = 1
       \/ /\ wkPosted[1] = wkPosted[2]
          /\ wkPosted[1].type = "computeArrowBearings"
          /\ Len(wkPosted[1].points) = 3
          /\ Len(wkOut) = 2

(***************************************************************************)
(* Claims about the geocode cache under overlapping calls.                 *)
(***************************************************************************)

\* C24: no step replaces or removes an entry of the geocode cache: a key
\* that is in the cache stays in it with the same value.
C24_AppendOnly ==
    [][\A key \in DOMAIN _cache :
          key \in DOMAIN _cache' /\ _cache'[key] = _cache[key]]_vars

(***************************************************************************)
(* Claims about the geocoding loop of the edge function.                   *)
(***************************************************************************)

\* a is b with some elements left out
RECURSIVE IsSubsequence(_, _)
IsSubsequence(a, b) ==
    IF a = <<>> THEN TRUE
    ELSE IF b = <<>> THEN FALSE
    ELSE IF Head(a) = Head(b) THEN IsSubsequence(Tail(a), Tail(b))
    ELSE IsSubsequence(a, Tail(b))

ResolvedNames == [k \in 1..Len(loop.resolvedStops) |-> loop.resolvedStops[k].name]

C25_WitnessTooFew ==
    /\ loop.status = 422
    /\ Len(loop.resolvedStops) = 1

\* C27: a handler is never answered 500 because a geocoding request
\* failed: the failure of a query variant is skipped like an empty answer.
C27_VariantFailureSwallowed == loop.cause # "fetch"

\* C28: between any two consecutive geocoding requests of a handler, query
\* variants of one stop included, at least RATE_LIMIT_MS elapse (a handler
\* has at most one geocoding request in flight: the one of its position).
C28_RateLimit == loop.gap # <<>> => loop.gap[1] >= RATE_LIMIT_MS

\* C29: once set, the anchor is the position of the first resolved stop,
\* and the candidates of a later stop are ranked by distance to it.
C29_AnchorSetOnce ==
    LET first == Some(Point(loop.resolvedStops[1].lat, loop.resolvedStops[1].lon)) IN
    /\ loop.anchor # Null => loop.anchor = first
    /\ loop.rankedBy # <<>> => loop.rankedBy = first

(***************************************************************************)
(* Claims about failures of the KV store of the edge function.             *)
(***************************************************************************)

\* the handler's kv.get or kv.set rejected: the only call that can throw
\* once kv.set was made is kv.set, and kv.get is the last call made when it
\* rejects
KvFailed(r) ==
    /\ r.threw
    /\ \/ "kv.set" \in r.calls
       \/ ("kv.get" \in r.calls /\ "geocode" \notin r.calls)

\* C26: a request whose handler could not open the KV store, or whose
\* kv.get or kv.set rejected, is not answered 500 for it.
C26_KvNonFatal ==
    \A r \in EdgeSeen : ~(KvFailed(r) /\ r.status = 500)

(***************************************************************************)
(* Claims about the termination of the marker interpolation.               *)
(***************************************************************************)

\* the animation with number a has a frame callback pending
PendingAnim(a) == \E h \in DOMAIN raf : raf[h].anim = a

\* the animation ran a frame with t = 1 that wrote its target
FinishedAnim(a) == [anim |-> a, atTarget |-> TRUE] \in animHist.finished

C31_CancelStops ==
    /\ [](\A a \in animHist.cancelled : ~PendingAnim(a))
    /\ [][(now' = now /\ rafNext' = rafNext) =>
            \E id \in Tracks :
               /\ raf' = IF InFlightAnim(id)
                         THEN MapDelete(raf, _animations[id]) ELSE raf
               /\ _animations' = MapDelete(_animations, id)
               /\ marker' = marker]_vars

\* an animation cancelled between two of its frames, and a later frame
C31_Witness ==
    /\ animHist.cancelled = {1}
    /\ animHist.count = 1
    /\ animHist.finished = {}
    /\ marker # Origin
    /\ marker \notin Targets
    /\ now >= 3

\* C34: a track has an entry in the handle map exactly while one of its
\* frame callbacks is pending.
C34_HandleWhilePending ==
    \A id \in Tracks : id \in DOMAIN _animations <=> PendingOf(id) # {}

(***************************************************************************)
(* Claims about the GPS filter as a function.                              *)
(***************************************************************************)

\* C35: filtering the points of the response again with the threshold of
\* the request gives the same points.
C35_Idempotent ==
    gpsOut # <<>> =>
        FilterNoisyGps(gpsOut[1], gpsIn.minDistMeters) = gpsOut[1]

\* a request of which the filter dropped a point and kept two
C35_Witness ==
    /\ gpsOut # <<>>
    /\ Len(gpsIn.rawPoints) = 3
    /\ Len(gpsOut[1]) = 2
    /\ gpsIn.minDistMeters = <<100>>

(***************************************************************************)
(* Claims about the cache key of the edge function.                        *)
(***************************************************************************)

\* C32: two different stop lists have different cache keys, and the lookup
\* for one never finds the entry stored for the other.
C32_KeyInjective ==
    (ekOut # <<>> /\ ekIn.first # ekIn.second)
        => (ekOut[1].k1 # ekOut[1].k2 /\ ekOut[1].found = <<>>)

(***************************************************************************)
(* Claims about what the edge function stores and returns from its cache.  *)
(***************************************************************************)

\* C33: a 200 response carries the busId of the request it answers.
C33_OwnBusId ==
    (edgeLast # <<>> /\ edgeLast[1].status = 200)
        => edgeLast[1].payload[1].busId = edgeLast[1].req.body.busId

(***************************************************************************)
(* Claims about the consistency of the two tiers of RouteCache.            *)
(***************************************************************************)

\* C36: whenever both tiers hold an entry for a key, the entry of tier 2
\* (unless other code has overwritten it with a string that is no JSON) is
\* the stored form of the entry of tier 1.
C36_TiersAgree ==
    \A key \in DOMAIN _mem \cap DOMAIN sessionStorage :
        sessionStorage[key] # Garbage
            => sessionStorage[key] = JsonStringify(_mem[key])

\* the statuses of the responses that are no result and no internal error
EdgeRefusals == {204, 400, 404, 405, 422, 502}

\* C37: the handler of a request answered 204, 400, 404, 405, 422 or 502
\* has made no cache write and the step that answers it leaves the KV store
\* as it is; and every entry of the KV store has at least 2 stops and is
\* the payload of a 200 response with fromCache = false of a handler that
\* had the store open and whose stop list has the entry's key.
C37_OnlySuccessCached ==
    /\ [](\A r \in EdgeSeen :
            r.status \in EdgeRefusals => "kv.set" \notin r.calls)
    /\ [](\A key \in DOMAIN kvStore :
            /\ Len(kvStore[key].value.stops) >= 2
            /\ \E a \in edgeStored :
                 /\ a.kv
                 /\ EdgeCacheKey(a.eff[1]) = key
                 /\ a.req.body.busId = kvStore[key].value.busId
                 /\ a.at >= kvStore[key].value.cachedAt)
    /\ [][(edgeLast' # edgeLast /\ edgeLast'[1].status \in EdgeRefusals)
             => kvStore' = kvStore]_vars

\* a request answered 502 while the store holds the entry of an earlier one
C37_Witness ==
    /\ edgeLast # <<>>
    /\ edgeLast[1].status = 502
    /\ edgeLast[1].kv
    /\ DOMAIN kvStore # {}

====
